---- MODULE Spec2Model ----
(***************************************************************************)
(* Auto-planning engine of the sample-testing scheduler                    *)
(* (server/storage.ts, DatabaseStorage.autoPlanJob and its helpers).       *)
(*                                                                         *)
(* Dates are JavaScript Date values at midnight, represented by their day  *)
(* number (days since 1970-01-01); the server's local time zone is taken   *)
(* to be UTC, so new Date('YYYY-MM-DD') and the local getters agree on the *)
(* calendar day.  Date strings 'YYYY-MM-DD' are the triples <<y, m, d>>.   *)
(* Optional (nullable) values are <<>> for null and <<v>> for a value.     *)
(* Indexes into jobStagesData keep the code's 0-based values.              *)
(***************************************************************************)
EXTENDS Integers, Sequences, FiniteSets, TLC

Null == <<>>
Some(v) == <<v>>
Val(o) == o[1]

Min(a, b) == IF a < b THEN a ELSE b
Max(a, b) == IF a > b THEN a ELSE b

(***************************************************************************)
(* Bounds of the checked input space.                                      *)
(***************************************************************************)
\* longest pipeline without holds
MaxStages == 12
\* longest pipeline with capped (hold) stages
MaxHoldStages == 5

\* proceedWithTestQty values of capped stages
HoldQtys == {2, 3}
\* job.totalSamples
Quantities == {3, 15}
\* processingTimeDays of the stages at odd / even pipeline positions
ProcessingProfiles == {<<0, 0>>, <<5, 5>>, <<7, 7>>, <<0, 5>>}

(***************************************************************************)
(* JavaScript Date: calendar <-> day number, day of week.                  *)
(***************************************************************************)
\* new Date('YYYY-MM-DD'): the day number of a calendar date
ParseDate(ymd) ==
  LET y   == IF ymd[2] <= 2 THEN ymd[1] - 1 ELSE ymd[1]
      era == y \div 400
      yoe == y - era * 400
      mp  == IF ymd[2] > 2 THEN ymd[2] - 3 ELSE ymd[2] + 9
      doy == (153 * mp + 2) \div 5 + ymd[3] - 1
      doe == yoe * 365 + yoe \div 4 - yoe \div 100 + doy
  IN era * 146097 + doe - 719468

\* getFullYear / getMonth + 1 / getDate, formatted as YYYY-MM-DD
FormatDate(days) ==
  LET z   == days + 719468
      era == z \div 146097
      doe == z - era * 146097
      yoe == (doe - doe \div 1460 + doe \div 36524 - doe \div 146096) \div 365
      doy == doe - (365 * yoe + yoe \div 4 - yoe \div 100)
      mp  == (5 * doy + 2) \div 153
      d   == doy - (153 * mp + 2) \div 5 + 1
      m   == IF mp < 10 THEN mp + 3 ELSE mp - 9
      y   == yoe + era * 400 + (IF m <= 2 THEN 1 ELSE 0)
  IN <<y, m, d>>

\* Date.getDay(): 0 = Sunday .. 6 = Saturday (1970-01-01 was a Thursday)
getDay(days) == (days + 4) % 7

\* a variant without the Sunday case: a Sunday goes to the Monday after it
getWeekStart_NoSundayCase(date) ==
  FormatDate(date - getDay(date) + 1)

\* storage.ts getWeekStart: the Monday of the week of `date`, as a date string
getWeekStart(date) ==
  LET day  == getDay(date)
      diff == date - day + (IF day = 0 THEN -6 ELSE 1)
  IN FormatDate(diff)

RECURSIVE addBusinessDaysLoop(_, _, _)
addBusinessDaysLoop(result, daysAdded, businessDays) ==
  IF daysAdded < businessDays
    THEN LET next == result + 1
             dayOfWeek == getDay(next)
         IN addBusinessDaysLoop(next,
              IF dayOfWeek # 0 /\ dayOfWeek # 6 THEN daysAdded + 1 ELSE daysAdded,
              businessDays)
    ELSE result

\* a variant that counts calendar days, weekends included
addBusinessDays_CalendarDays(startDate, businessDays) ==
  startDate + businessDays

\* a variant without the zero case: a stage without processing time still
\* takes one business day
addBusinessDays_AtLeastOne(startDate, businessDays) ==
  addBusinessDaysLoop(startDate, 0, Max(businessDays, 1))

\* storage.ts addBusinessDays
addBusinessDays(startDate, businessDays) ==
  IF businessDays = 0
    THEN startDate
    ELSE addBusinessDaysLoop(startDate, 0, businessDays)

(***************************************************************************)
(* The helpers of the C# controller (JobsController), on the same day      *)
(* numbers: DateTime.Day, DateTime.DayOfWeek, AddDays, ToString.           *)
(***************************************************************************)
\* JobsController.GetWeekStart: AddDays(diff - weekStart.Day + date.Day) on a
\* copy weekStart of date, formatted yyyy-MM-dd
GetWeekStart(date) ==
  LET Day(d) == FormatDate(d)[3]
      day  == getDay(date)
      diff == Day(date) - day + (IF day = 0 THEN -6 ELSE 1)
  IN FormatDate(date + (diff - Day(date) + Day(date)))

RECURSIVE AddBusinessDaysLoop(_, _, _)
AddBusinessDaysLoop(result, daysAdded, businessDays) ==
  IF daysAdded < businessDays
    THEN LET next == result + 1
         IN AddBusinessDaysLoop(next,
              IF getDay(next) # 6 /\ getDay(next) # 0 THEN daysAdded + 1 ELSE daysAdded,
              businessDays)
    ELSE result

\* JobsController.AddBusinessDays
AddBusinessDays(startDate, businessDays) ==
  IF businessDays = 0
    THEN startDate
    ELSE AddBusinessDaysLoop(startDate, 0, businessDays)

(***************************************************************************)
(* The store: tables of shared/schema.ts.                                  *)
(***************************************************************************)
\* stages.id of the stage with stages.order = k (ids do not follow the order)
StageId(k) == 200 - k
\* a stage that is linked to another activity type only
OtherStageId == 300
\* jobs.id of the planned job and of another job with rows of its own
PlannedJobId == 1
OtherJobId == 2
MissingJobId == 9

ActivityTypesTable ==
  { [id |-> 1, name |-> "AT"],
    [id |-> 2, name |-> "NO_STAGES"],
    [id |-> 3, name |-> "OTHER"] }

\* a capped stage: position, proceedWithTestQty, position of the release stage
HoldSpecs(n) ==
  { h \in [at : 1..n, qty : HoldQtys, rel : 1..n] : h.at < h.rel }

\* at most two capped stages per pipeline
HoldSets(n) ==
  {{}} \cup { {h} : h \in HoldSpecs(n) }
       \cup UNION { { {h1, h2} : h2 \in { h \in HoldSpecs(n) : h1.at < h.at } }
                    : h1 \in HoldSpecs(n) }

LinearConfigs ==
  [n : 1..MaxStages, holds : {{}}, profile : ProcessingProfiles,
   activityType : {"AT"}, jobId : {PlannedJobId}]

HoldConfigs ==
  UNION { [n : {k}, holds : HoldSets(k), profile : ProcessingProfiles,
           activityType : {"AT"}, jobId : {PlannedJobId}] : k \in 1..MaxHoldStages }

ErrorConfigs ==
  [n : {2}, holds : {{}}, profile : {<<5, 5>>},
   activityType : {"NO_STAGES", "NONEXISTENT"}, jobId : {PlannedJobId}]
  \cup
  [n : {2}, holds : {{}}, profile : {<<5, 5>>},
   activityType : {"AT"}, jobId : {MissingJobId}]

Configs == LinearConfigs \cup HoldConfigs \cup ErrorConfigs

\* longest pipeline with a malformed release configuration
MaxMalformedStages == 4
\* proceedWithTestQty values of the stages with a malformed release
MalformedHoldQtys == {1, 2}

\* a capped stage whose release stage is unset (0), outside the pipeline (-1)
\* or earlier in the pipeline than the capped stage
MalformedHoldSpecs(n) ==
  { h \in [at : 1..n, qty : MalformedHoldQtys, rel : (-1)..n] : h.rel < h.at }

\* one malformed capped stage, alone or next to a well-formed one
MalformedHoldSets(n) ==
  { {h} : h \in MalformedHoldSpecs(n) }
  \cup UNION { { {h, w} : w \in { x \in HoldSpecs(n) : x.at # h.at } }
               : h \in MalformedHoldSpecs(n) }

MalformedConfigs ==
  UNION { [n : {k}, holds : MalformedHoldSets(k), profile : {<<5, 5>>},
           activityType : {"AT"}, jobId : {PlannedJobId}]
          : k \in 1..MaxMalformedStages }

\* stages.releaseRemainingAtStageId of a capped stage: the id of the stage at
\* position rel, null for rel = 0, a stage outside the pipeline for rel = -1
ReleaseStageId(rel) ==
  IF rel = 0 THEN Null
  ELSE IF rel = -1 THEN Some(OtherStageId)
  ELSE Some(StageId(rel))

\* rows of the stages table for a configuration
StagesTable(cfg) ==
  { [id |-> StageId(k),
     order |-> k,
     proceedWithTestQty |->
       IF \E h \in cfg.holds : h.at = k
         THEN Some((CHOOSE h \in cfg.holds : h.at = k).qty) ELSE Null,
     releaseRemainingAtStageId |->
       IF \E h \in cfg.holds : h.at = k
         THEN ReleaseStageId((CHOOSE h \in cfg.holds : h.at = k).rel) ELSE Null]
    : k \in 1..cfg.n }
  \cup
  { [id |-> OtherStageId, order |-> 0,
     proceedWithTestQty |-> Null, releaseRemainingAtStageId |-> Null] }

\* rows of the activity_type_stages table for a configuration
ActivityTypeStagesTable(cfg) ==
  { [activityTypeId |-> 1, stageId |-> StageId(k),
     processingTimeDays |-> IF k % 2 = 1 THEN cfg.profile[1] ELSE cfg.profile[2]]
    : k \in 1..cfg.n }
  \cup
  { [activityTypeId |-> 3, stageId |-> OtherStageId, processingTimeDays |-> 1] }

\* schedule rows left by earlier planning and manual edits of the planned job,
\* next to a row of another job
EarlierSchedules ==
  { [id |-> 1, jobId |-> PlannedJobId, stageId |-> StageId(1),
     weekStart |-> <<2025, 6, 9>>, scheduledSamples |-> 4],
    [id |-> 2, jobId |-> PlannedJobId, stageId |-> StageId(2),
     weekStart |-> <<2025, 6, 2>>, scheduledSamples |-> 7],
    [id |-> 3, jobId |-> OtherJobId, stageId |-> StageId(1),
     weekStart |-> <<2025, 6, 9>>, scheduledSamples |-> 5] }

\* job.materialArrivesDate (Monday 2025-06-09, Thursday 2025-06-12) and the
\* rows of table schedules at the call
Environments ==
  { [arrival |-> <<2025, 6, 9>>, rows |-> {}],
    [arrival |-> <<2025, 6, 9>>, rows |-> EarlierSchedules],
    [arrival |-> <<2025, 6, 12>>, rows |-> EarlierSchedules] }

\* job.deadlineDate: far after the plan, and in the week of the arrival
DeadlineDates == { <<2025, 12, 31>>, <<2025, 6, 13>> }

\* table capacities: empty, and with capacities below every job quantity
CapacityTables ==
  { {},
    { [stageId |-> StageId(k), weekStart |-> w, maxCapacity |-> k - 1]
      : k \in 1..2, w \in { <<2025, 6, 9>>, <<2025, 6, 16>> } } }

\* the locals of a call of autoPlanJob(id) that has not made a step
CallOf(id, rows) ==
  [jobId |-> id, pc |-> "start", job |-> Null, jobStagesData |-> <<>>,
   batches |-> <<>>, iterations |-> 0, i |-> 0, j |-> 0, weekStart |-> Null,
   existingSchedule |-> Null, result |-> "running", schedulesAtCall |-> rows,
   writes |-> <<>>]

VARIABLES
  jobs,                \* table jobs
  activityTypes,       \* table activity_types
  stages,              \* table stages
  activityTypeStages,  \* table activity_type_stages
  capacities,          \* table capacities
  schedules,           \* table schedules
  nextScheduleId,      \* serial of schedules.id
  jobId,               \* autoPlanJob: the argument
  pc,                  \* autoPlanJob: position in the method
  job,                 \* autoPlanJob: const job
  jobStagesData,       \* autoPlanJob: const jobStagesData
  batches,             \* autoPlanJob: const batches
  iterations,          \* autoPlanJob: let iterations
  i,                   \* autoPlanJob: index of the per-batch loop (0-based)
  j,                   \* autoPlanJob: index of the release scan (0-based)
  weekStart,           \* autoPlanJob: var weekStart
  existingSchedule,    \* scheduleQuantityForWeek: const existingSchedule
  result,              \* autoPlanJob: "running", "ok" or the error thrown
  schedulesAtCall,     \* history: table schedules when autoPlanJob was called
  writes,              \* history: the calls of scheduleQuantityForWeek, in order
  other,               \* a second call of autoPlanJob in flight: its locals
  previousPlan,        \* history: the job's rows and the result of the previous call
  implementation,      \* "ts": storage.ts autoPlanJob, "cs": JobsController.AutoPlanJob
  helper,              \* calls of the date helpers on their own: arguments and results
  edit                 \* the last manual edit of table schedules: the call and its arguments

vars == <<jobs, activityTypes, stages, activityTypeStages, capacities, schedules,
          nextScheduleId, jobId, pc, job, jobStagesData, batches, iterations,
          i, j, weekStart, existingSchedule, result, schedulesAtCall, writes,
          other, previousPlan, implementation, helper, edit>>

\* the tables autoPlanJob does not write, what belongs to other calls and to
\* the helpers called on their own and to the manual edits, and which
\* implementation is running
tables == <<jobs, activityTypes, stages, activityTypeStages, capacities,
            other, previousPlan, implementation, helper, edit>>

\* the row of table jobs of a job
JobRow(id, cfg, q, env) ==
  [id |-> id, activityType |-> cfg.activityType, totalSamples |-> q,
   materialArrivesDate |-> env.arrival, deadlineDate |-> <<2025, 12, 31>>]

\* the state at the call of autoPlanJob(cfg.jobId), with the rows of table jobs
\* and the second call in flight, if any
InitCall(cfg, env, jobRows, second) ==
    /\ jobs = jobRows
    /\ capacities = {}
    /\ other = second
    /\ previousPlan = Null
    /\ implementation = "ts"
    /\ helper = Null
    /\ edit = Null
    /\ existingSchedule = Null
    /\ activityTypes = ActivityTypesTable
    /\ stages = StagesTable(cfg)
    /\ activityTypeStages = ActivityTypeStagesTable(cfg)
    /\ schedules = env.rows
    /\ nextScheduleId = Cardinality(env.rows) + 1
    /\ jobId = cfg.jobId
    /\ pc = "start"
    /\ job = Null
    /\ jobStagesData = <<>>
    /\ batches = <<>>
    /\ iterations = 0
    /\ i = 0
    /\ j = 0
    /\ weekStart = Null
    /\ result = "running"
    /\ schedulesAtCall = env.rows
    /\ writes = <<>>

\* one job, one call
InitWith(cfg, q, env) ==
  InitCall(cfg, env, { JobRow(PlannedJobId, cfg, q, env) }, Null)

Init ==
  \E cfg \in Configs, q \in Quantities, env \in Environments :
    InitWith(cfg, q, env)

\* calls on pipelines with a malformed release configuration
InitMalformed ==
  \E cfg \in MalformedConfigs, q \in Quantities :
    InitWith(cfg, q, [arrival |-> <<2025, 6, 9>>, rows |-> EarlierSchedules])

(***************************************************************************)
(* Helpers of autoPlanJob.                                                 *)
(***************************************************************************)
\* Array.prototype.findIndex on jobStagesData by stageId: 0-based, -1 if absent
findIndex(data, stageId) ==
  IF stageId # Null /\ \E k \in 1..Len(data) : data[k].stageId = Val(stageId)
    THEN (CHOOSE k \in 1..Len(data) :
            /\ data[k].stageId = Val(stageId)
            /\ \A m \in 1..(k - 1) : data[m].stageId # Val(stageId)) - 1
    ELSE -1

\* jobStagesData[index]: Null stands for undefined
StageAt(data, index) ==
  IF index >= 0 /\ index < Len(data) THEN Some(data[index + 1]) ELSE Null

\* a variant of the join without the WHERE clause: the links of every activity type
JoinStages_AnyActivityType(links, stageRows, activityTypeId) ==
  UNION { { [stageId |-> l.stageId,
             processingTimeDays |-> l.processingTimeDays,
             stage |-> s] : s \in { x \in stageRows : x.id = l.stageId } }
          : l \in links }

\* activity_type_stages INNER JOIN stages WHERE activityTypeId = id
JoinStages(links, stageRows, activityTypeId) ==
  UNION { { [stageId |-> l.stageId,
             processingTimeDays |-> l.processingTimeDays,
             stage |-> s] : s \in { x \in stageRows : x.id = l.stageId } }
          : l \in { x \in links : x.activityTypeId = activityTypeId } }

RECURSIVE OrderByStageOrder(_)
\* ORDER BY stages.order
OrderByStageOrder(rows) ==
  IF rows = {} THEN <<>>
  ELSE LET first == CHOOSE r \in rows : \A o \in rows : r.stage.order <= o.stage.order
       IN <<first>> \o OrderByStageOrder(rows \ {first})

\* the rows of table schedules of one job
JobSchedules(rows, id) == { r \in rows : r.jobId = id }

\* scheduleQuantityForWeek, the select ... limit 1: no row or the first one
selectExistingSchedule(rows, id, stageId, week) ==
  LET matching ==
        { r \in rows : r.jobId = id /\ r.stageId = stageId /\ r.weekStart = week }
  IN IF matching = {} THEN Null
     ELSE Some(CHOOSE r \in matching : \A o \in matching : r.id <= o.id)

\* a variant that overwrites the quantity of an existing row instead of adding
writeSchedule_Overwrite(rows, serial, existing, id, stageId, week, quantity) ==
  IF existing # Null
    THEN [rows |-> { IF r.jobId = id /\ r.stageId = stageId /\ r.weekStart = week
                       THEN [r EXCEPT !.scheduledSamples = quantity]
                       ELSE r : r \in rows },
          serial |-> serial]
    ELSE [rows |-> rows \cup { [id |-> serial, jobId |-> id, stageId |-> stageId,
                                weekStart |-> week, scheduledSamples |-> quantity] },
          serial |-> serial + 1]

\* a variant that inserts a new row whether or not a row for the key exists
writeSchedule_AlwaysInsert(rows, serial, existing, id, stageId, week, quantity) ==
  [rows |-> rows \cup { [id |-> serial, jobId |-> id, stageId |-> stageId,
                          weekStart |-> week, scheduledSamples |-> quantity] },
   serial |-> serial + 1]

\* scheduleQuantityForWeek, the update ... where / insert after the select:
\* the new table and the new serial
writeSchedule(rows, serial, existing, id, stageId, week, quantity) ==
  IF existing # Null
    THEN [rows |-> { IF r.jobId = id /\ r.stageId = stageId /\ r.weekStart = week
                       THEN [r EXCEPT !.scheduledSamples =
                               Val(existing).scheduledSamples + quantity]
                       ELSE r : r \in rows },
          serial |-> serial]
    ELSE [rows |-> rows \cup { [id |-> serial, jobId |-> id, stageId |-> stageId,
                                weekStart |-> week, scheduledSamples |-> quantity] },
          serial |-> serial + 1]

\* JobsController.ScheduleQuantityForWeek after FirstOrDefaultAsync: += on the
\* entity found, or Add, and SaveChangesAsync
SaveSchedule(rows, serial, existing, id, stageId, week, quantity) ==
  IF existing # Null
    THEN [rows |-> { IF r.id = Val(existing).id
                       THEN [r EXCEPT !.scheduledSamples =
                               Val(existing).scheduledSamples + quantity]
                       ELSE r : r \in rows },
          serial |-> serial]
    ELSE [rows |-> rows \cup { [id |-> serial, jobId |-> id, stageId |-> stageId,
                                weekStart |-> week, scheduledSamples |-> quantity] },
          serial |-> serial + 1]

\* the write of the implementation that is running
Written(rows, serial, existing, id, stageId, week, quantity) ==
  IF implementation = "cs"
    THEN SaveSchedule(rows, serial, existing, id, stageId, week, quantity)
    ELSE writeSchedule(rows, serial, existing, id, stageId, week, quantity)

\* storage.ts scheduleQuantityForWeek as a whole, nothing running in between
scheduleQuantityForWeek(rows, serial, id, stageId, week, quantity) ==
  writeSchedule(rows, serial, selectExistingSchedule(rows, id, stageId, week),
                id, stageId, week, quantity)

\* a variant of the delete without the where clause: the rows of every job
deleteSchedules_AllJobs(rows, id) == {}

\* a variant of the delete that removes nothing
deleteSchedules_Nothing(rows, id) == rows

\* db.delete(schedules).where(eq(schedules.jobId, jobId))
deleteSchedules(rows, id) == rows \ JobSchedules(rows, id)

\* batches.sort(...): not-held batches first, otherwise order kept
SortBatches(bs) ==
  SelectSeq(bs, LAMBDA b : ~b.held) \o SelectSeq(bs, LAMBDA b : b.held)

\* a variant that holds back one unit less than the split leaves behind
HeldQty_OneShort(qty, proceedWithTestQty) ==
  IF proceedWithTestQty # Null THEN Max(qty - Val(proceedWithTestQty) - 1, 0) ELSE 0

\* heldQty of the split
HeldQty(qty, proceedWithTestQty) ==
  IF proceedWithTestQty # Null THEN Max(qty - Val(proceedWithTestQty), 0) ELSE 0

\* a variant that keeps the scheduled quantity within the largest capacity of
\* table capacities
SchedulingQty_WithinCapacity(qty, proceedWithTestQty) ==
  LET wanted == IF proceedWithTestQty # Null THEN Min(Val(proceedWithTestQty), qty)
                ELSE qty
  IN IF capacities = {} THEN wanted
     ELSE Min(wanted, (CHOOSE c \in capacities :
                         \A o \in capacities : c.maxCapacity >= o.maxCapacity).maxCapacity)

\* schedulingQty of the split
SchedulingQty(qty, proceedWithTestQty) ==
  IF proceedWithTestQty # Null THEN Min(Val(proceedWithTestQty), qty) ELSE qty

\* a variant that releases a held batch on the next scheduling of any stage
ReleaseMatches_AnyStage(heldBatch, batch) ==
  heldBatch.held

\* a variant that releases a held batch one stage early, when a batch is
\* scheduled into the stage before the release stage
ReleaseMatches_OneStageEarly(heldBatch, batch) ==
  /\ heldBatch.held
  /\ findIndex(jobStagesData, heldBatch.releaseQtyHeldAtStage) =
       findIndex(jobStagesData, batch.lastScheduledStage) + 1

\* the condition of the release scan
ReleaseMatches(heldBatch, batch) ==
  heldBatch.held /\ heldBatch.releaseQtyHeldAtStage = batch.lastScheduledStage

\* the loop's deadlock check fires after this many iterations
DeadlockAfterIterations == 10
MaxIterations == 100

(***************************************************************************)
(* autoPlanJob, step by step.                                              *)
(***************************************************************************)
Throw(error) ==
  /\ result' = error
  /\ pc' = "done"

\* getJob, the activity type lookup, the stage join and their errors
LoadStageGraph ==
  /\ pc = "start"
  /\ LET found == { r \in jobs : r.id = jobId }
     IN IF found = {}
          THEN /\ Throw("JobNotFound")
               /\ UNCHANGED <<job, jobStagesData>>
          ELSE LET theJob == CHOOSE r \in found : TRUE
                   activityType == { a \in activityTypes : a.name = theJob.activityType }
               IN /\ job' = Some(theJob)
                  /\ IF activityType = {}
                       THEN /\ Throw("ActivityTypeNotFound")
                            /\ UNCHANGED jobStagesData
                       ELSE LET data == OrderByStageOrder(
                                          JoinStages(activityTypeStages, stages,
                                            (CHOOSE a \in activityType : TRUE).id))
                            IN /\ jobStagesData' = data
                               /\ IF Len(data) = 0
                                    THEN Throw("NoApplicableStages")
                                    ELSE /\ pc' = "clear"
                                         /\ UNCHANGED result
  /\ UNCHANGED <<tables, existingSchedule, schedules, nextScheduleId, jobId, batches, iterations,
                 i, j, weekStart, schedulesAtCall, writes>>

\* db.delete(schedules).where(jobId) and the initial batch
ClearSchedules ==
  /\ pc = "clear"
  /\ schedules' = deleteSchedules(schedules, jobId)
  /\ batches' = << [qty |-> Val(job).totalSamples,
                    lastScheduledStage |-> Null,
                    held |-> FALSE,
                    schedulingCompleted |-> FALSE,
                    lastScheduledDate |-> Null,
                    releaseQtyHeldAtStage |-> Null,
                    enteredAt |-> Null] >>
  /\ iterations' = 0
  /\ pc' = "loop"
  /\ UNCHANGED <<tables, existingSchedule, nextScheduleId, jobId, job, jobStagesData, i, j,
                 weekStart, result, schedulesAtCall, writes>>

\* the while condition; on entry iterations++ and the sort
LoopTest ==
  /\ pc = "loop"
  /\ IF (\E k \in 1..Len(batches) : ~batches[k].schedulingCompleted)
        /\ iterations < MaxIterations
       THEN /\ iterations' = iterations + 1
            /\ batches' = SortBatches(batches)
            /\ i' = 0
            /\ pc' = "batch"
       ELSE /\ pc' = "after"
            /\ UNCHANGED <<iterations, batches, i>>
  /\ UNCHANGED <<tables, existingSchedule, schedules, nextScheduleId, jobId, job, jobStagesData,
                 j, weekStart, result, schedulesAtCall, writes>>

\* a held or completed batch: continue
SkipBatch ==
  /\ pc = "batch"
  /\ i < Len(batches)
  /\ batches[i + 1].held \/ batches[i + 1].schedulingCompleted
  /\ i' = i + 1
  /\ UNCHANGED <<tables, existingSchedule, schedules, nextScheduleId, jobId, pc, job, jobStagesData,
                 batches, iterations, j, weekStart, result, schedulesAtCall, writes>>

\* the main step of an active batch: the stage it left and the stage it enters
PreviousStage(batch) ==
  StageAt(jobStagesData,
          IF batch.lastScheduledStage = Null THEN 0
          ELSE findIndex(jobStagesData, batch.lastScheduledStage))

\* a variant that passes over the stage after the batch's last stage
NextStageIndex_SkipsOne(batch) ==
  IF batch.lastScheduledStage = Null THEN 0
  ELSE findIndex(jobStagesData, batch.lastScheduledStage) + 2

NextStageIndex(batch) ==
  IF batch.lastScheduledStage = Null THEN 0
  ELSE findIndex(jobStagesData, batch.lastScheduledStage) + 1

NextStage(batch) == StageAt(jobStagesData, NextStageIndex(batch))

\* a variant that waits for the processing time of the stage being entered
ForDate_EnteredStage(batch) ==
  addBusinessDays(IF batch.lastScheduledDate = Null
                    THEN ParseDate(Val(job).materialArrivesDate)
                    ELSE Val(batch.lastScheduledDate),
                  IF NextStage(batch) # Null
                    THEN Val(NextStage(batch)).processingTimeDays ELSE 0)

\* the date the batch is scheduled for
\* (the C# controller takes 0 days when the previous stage is not found)
ForDate(batch) ==
  LET processingTimeForPreviousStage ==
        IF batch.lastScheduledStage # Null
             /\ (implementation = "cs" => PreviousStage(batch) # Null)
          THEN Val(PreviousStage(batch)).processingTimeDays ELSE 0
      calculateNextSchedulingDateFrom ==
        IF batch.lastScheduledDate = Null
          THEN ParseDate(Val(job).materialArrivesDate)
          ELSE Val(batch.lastScheduledDate)
  IN IF implementation = "cs"
       THEN AddBusinessDays(calculateNextSchedulingDateFrom,
                            processingTimeForPreviousStage)
       ELSE addBusinessDays(calculateNextSchedulingDateFrom,
                            processingTimeForPreviousStage)

\* the week bucket of a date, by the implementation that is running
WeekStartOf(date) ==
  IF implementation = "cs" THEN GetWeekStart(date) ELSE getWeekStart(date)

\* an active batch: next stage, date, split, and the select of
\* scheduleQuantityForWeek
SelectForBatch ==
  /\ pc = "batch"
  /\ i < Len(batches)
  /\ LET batch == batches[i + 1] IN
     /\ ~(batch.held \/ batch.schedulingCompleted)
     /\ IF /\ implementation = "ts"
           /\ \/ (batch.lastScheduledStage # Null /\ PreviousStage(batch) = Null)
              \/ NextStage(batch) = Null
          THEN /\ Throw("TypeError")
               /\ UNCHANGED <<weekStart, existingSchedule, batches, i>>
          ELSE IF implementation = "cs" /\ NextStage(batch) = Null
          THEN \* C#: nextStageIndex >= jobStagesData.Count: completed, continue
               /\ batches' = [batches EXCEPT ![i + 1].schedulingCompleted = TRUE]
               /\ i' = i + 1
               /\ UNCHANGED <<weekStart, existingSchedule, pc, result>>
          ELSE /\ weekStart' = Some(WeekStartOf(ForDate(batch)))
               /\ existingSchedule' =
                    selectExistingSchedule(schedules, jobId,
                      Val(NextStage(batch)).stageId, WeekStartOf(ForDate(batch)))
               /\ pc' = "write"
               /\ UNCHANGED <<result, batches, i>>
  /\ UNCHANGED <<tables, schedules, nextScheduleId, jobId, job, jobStagesData,
                 iterations, j, schedulesAtCall, writes>>

\* an active batch: the write of scheduleQuantityForWeek, batch update, held child
ScheduleBatch ==
  /\ pc = "write"
  /\ LET batch == batches[i + 1]
         previousStageId == batch.lastScheduledStage
         nextStageIndex == NextStageIndex(batch)
         nextStage == NextStage(batch)
         forDate == ForDate(batch)
         heldQty == HeldQty(batch.qty, Val(nextStage).stage.proceedWithTestQty)
         schedulingQty ==
           SchedulingQty(batch.qty, Val(nextStage).stage.proceedWithTestQty)
         written == Written(schedules, nextScheduleId, existingSchedule, jobId,
                      Val(nextStage).stageId, Val(weekStart), schedulingQty)
         updated == [batch EXCEPT
                       !.qty = schedulingQty,
                       !.lastScheduledStage = Some(Val(nextStage).stageId),
                       !.lastScheduledDate = Some(forDate),
                       !.schedulingCompleted =
                          (nextStageIndex = Len(jobStagesData) - 1),
                       !.enteredAt = Some(forDate)]
         child == [qty |-> heldQty,
                   lastScheduledStage |-> previousStageId,
                   held |-> TRUE,
                   schedulingCompleted |-> FALSE,
                   lastScheduledDate |-> Null,
                   releaseQtyHeldAtStage |->
                     Val(nextStage).stage.releaseRemainingAtStageId,
                   enteredAt |-> batch.enteredAt]
     IN /\ schedules' = written.rows
        /\ nextScheduleId' = written.serial
        /\ batches' = IF heldQty # 0
                        THEN Append([batches EXCEPT ![i + 1] = updated], child)
                        ELSE [batches EXCEPT ![i + 1] = updated]
        /\ writes' = Append(writes,
             [stageId |-> Val(nextStage).stageId, weekStart |-> Val(weekStart),
              quantity |-> schedulingQty, date |-> forDate,
              since |-> batch.enteredAt, kind |-> "advance"])
        /\ j' = 0
        /\ pc' = "release"
  /\ existingSchedule' = Null
  /\ UNCHANGED <<tables, jobId, job, jobStagesData, iterations, i, weekStart,
                 result, schedulesAtCall>>

\* the first index at or after j of a held batch waiting on the stage just scheduled
NextReleased ==
  { k \in j..(Len(batches) - 1) :
      /\ ReleaseMatches(batches[k + 1], batches[i + 1])
      /\ \A m \in j..(k - 1) : ~ReleaseMatches(batches[m + 1], batches[i + 1]) }

\* a variant that releases a held batch into the stage of the batch that
\* triggered the release
ReleaseToStageIndex_TriggerStage(heldBatch, batch) ==
  findIndex(jobStagesData, batch.lastScheduledStage)

\* the stage a held batch is released into: the one after its own last stage
ReleaseToStageIndex(heldBatch, batch) ==
  findIndex(jobStagesData, heldBatch.lastScheduledStage) + 1

\* the release scan finds a held batch to release: the batch is updated and
\* scheduleQuantityForWeek makes its select
ReleaseHeldBatch ==
  /\ pc = "release"
  /\ \E k \in NextReleased :
       LET batch == batches[i + 1]
           heldBatch == batches[k + 1]
           releaseToStageIndex == ReleaseToStageIndex(heldBatch, batch)
           releaseToStage == StageAt(jobStagesData, releaseToStageIndex)
           cleared == [heldBatch EXCEPT
                         !.held = FALSE,
                         !.releaseQtyHeldAtStage = Null,
                         !.lastScheduledDate = batch.lastScheduledDate]
       IN IF releaseToStage = Null /\ implementation = "ts"
            THEN /\ Throw("TypeError")
                 /\ batches' = [batches EXCEPT ![k + 1] = cleared]
                 /\ UNCHANGED <<j, existingSchedule>>
            ELSE IF releaseToStage = Null
            THEN \* C#: releaseToStageIndex >= jobStagesData.Count: completed, continue
                 /\ batches' = [batches EXCEPT ![k + 1].schedulingCompleted = TRUE]
                 /\ j' = k + 1
                 /\ UNCHANGED <<existingSchedule, pc, result>>
            ELSE /\ batches' = [batches EXCEPT ![k + 1] =
                       [cleared EXCEPT
                          !.lastScheduledStage = Some(Val(releaseToStage).stageId),
                          !.schedulingCompleted =
                             IF releaseToStageIndex = Len(jobStagesData) - 1
                               THEN TRUE ELSE heldBatch.schedulingCompleted]]
                 /\ existingSchedule' =
                      selectExistingSchedule(schedules, jobId,
                        Val(releaseToStage).stageId, Val(weekStart))
                 /\ j' = k
                 /\ pc' = "releaseWrite"
                 /\ UNCHANGED result
  /\ UNCHANGED <<tables, schedules, nextScheduleId, jobId, job, jobStagesData,
                 iterations, i, weekStart, schedulesAtCall, writes>>

\* the write of scheduleQuantityForWeek for the batch just released
WriteReleased ==
  /\ pc = "releaseWrite"
  /\ LET batch == batches[i + 1]
         heldBatch == batches[j + 1]
         written == Written(schedules, nextScheduleId, existingSchedule, jobId,
                      Val(heldBatch.lastScheduledStage), Val(weekStart), heldBatch.qty)
     IN /\ schedules' = written.rows
        /\ nextScheduleId' = written.serial
        /\ writes' = Append(writes,
             [stageId |-> Val(heldBatch.lastScheduledStage),
              weekStart |-> Val(weekStart),
              quantity |-> heldBatch.qty,
              date |-> Val(batch.lastScheduledDate),
              since |-> heldBatch.enteredAt, kind |-> "release"])
        /\ batches' = [batches EXCEPT ![j + 1].enteredAt = batch.lastScheduledDate]
  /\ existingSchedule' = Null
  /\ j' = j + 1
  /\ pc' = "release"
  /\ UNCHANGED <<tables, jobId, job, jobStagesData, iterations, i, weekStart,
                 result, schedulesAtCall>>

\* the release scan reaches the end of batches: next batch of the pass
ReleaseScanDone ==
  /\ pc = "release"
  /\ NextReleased = {}
  /\ i' = i + 1
  /\ pc' = "batch"
  /\ UNCHANGED <<tables, existingSchedule, schedules, nextScheduleId, jobId, job, jobStagesData,
                 batches, iterations, j, weekStart, result, schedulesAtCall, writes>>

\* end of a pass: progressMade is never set, so the check is iterations > 10
\* (the C# controller has no such check)
EndOfIteration ==
  /\ pc = "batch"
  /\ i >= Len(batches)
  /\ LET progressMade == FALSE
     IN IF implementation = "ts" /\ ~progressMade /\ iterations > DeadlockAfterIterations
          THEN Throw("Deadlock")
          ELSE /\ pc' = "loop"
               /\ UNCHANGED result
  /\ UNCHANGED <<tables, existingSchedule, schedules, nextScheduleId, jobId, job, jobStagesData,
                 batches, iterations, i, j, weekStart, schedulesAtCall, writes>>

\* after the loop: the max-iteration check, or normal return
AfterLoop ==
  /\ pc = "after"
  /\ IF iterations >= MaxIterations
       THEN Throw("MaxIterations")
       ELSE /\ result' = "ok"
            /\ pc' = "done"
  /\ UNCHANGED <<tables, existingSchedule, schedules, nextScheduleId, jobId, job, jobStagesData,
                 batches, iterations, i, j, weekStart, schedulesAtCall, writes>>

Next ==
  \/ LoadStageGraph
  \/ ClearSchedules
  \/ LoopTest
  \/ SkipBatch
  \/ SelectForBatch
  \/ ScheduleBatch
  \/ ReleaseHeldBatch
  \/ WriteReleased
  \/ ReleaseScanDone
  \/ EndOfIteration
  \/ AfterLoop

Spec == Init /\ [][Next]_vars

SpecMalformed == InitMalformed /\ [][Next]_vars

(***************************************************************************)
(* The scenario of the tests with two capped stages: five stages, Stage 2  *)
(* capped at P1 and Stage 3 capped at P2 < P1, both releasing at Stage 4.  *)
(***************************************************************************)
\* job.totalSamples, P1 and P2 of the scenario
MultiHoldQuantities ==
  { c \in [q : {4, 15, 20}, p1 : {2, 3}, p2 : {1, 2}] : c.p2 < c.p1 /\ c.p1 < c.q }

MultiHoldConfig(c, profile) ==
  [n |-> 5,
   holds |-> { [at |-> 2, qty |-> c.p1, rel |-> 4], [at |-> 3, qty |-> c.p2, rel |-> 4] },
   profile |-> profile, activityType |-> "AT", jobId |-> PlannedJobId]

InitMultiHold ==
  \E c \in MultiHoldQuantities, profile \in ProcessingProfiles, env \in Environments :
    InitWith(MultiHoldConfig(c, profile), c.q, env)

SpecMultiHold == InitMultiHold /\ [][Next]_vars

(***************************************************************************)
(* A second call of autoPlanJob for the same job after the first returned. *)
(***************************************************************************)
\* longest pipeline planned twice
MaxRerunStages == 4

RerunConfigs ==
  UNION { [n : {k}, holds : HoldSets(k), profile : {<<0, 5>>, <<7, 7>>},
           activityType : {"AT"}, jobId : {PlannedJobId}] : k \in 1..MaxRerunStages }

InitRerun ==
  \E cfg \in RerunConfigs, q \in Quantities, env \in Environments :
    InitWith(cfg, q, env)

\* the rows of a job as (stage, week, quantity), and how many rows there are
PlanOf(rows, id) ==
  [rows  |-> { <<r.stageId, r.weekStart, r.scheduledSamples>> :
               r \in JobSchedules(rows, id) },
   count |-> Cardinality(JobSchedules(rows, id))]

\* storage.ts createSchedule: an unconditional insert
createSchedule(rows, serial, id, stageId, week, quantity) ==
  rows \cup { [id |-> serial, jobId |-> id, stageId |-> stageId,
               weekStart |-> week, scheduledSamples |-> quantity] }

\* storage.ts deleteSchedule: delete ... where job, stage and week
deleteSchedule(rows, id, stageId, week) ==
  rows \ { r \in rows : r.jobId = id /\ r.stageId = stageId /\ r.weekStart = week }

\* deleteSchedule of the (stage, week) of the job's oldest row
deleteOldestSchedule(rows, id) ==
  IF JobSchedules(rows, id) = {} THEN rows
  ELSE LET oldest == CHOOSE r \in JobSchedules(rows, id) :
                       \A o \in JobSchedules(rows, id) : r.id <= o.id
       IN deleteSchedule(rows, id, oldest.stageId, oldest.weekStart)

\* what happens between the two calls: a manual edit of the job's rows (none,
\* a row created in the arrival week of the first stage, the oldest row
\* deleted), a new capacities table and a new deadline of the job
ChangesBetweenCalls ==
  { [edit |-> "none",   capacities |-> {}, deadline |-> <<2025, 12, 31>>],
    [edit |-> "none",   capacities |-> CHOOSE c \in CapacityTables : c # {},
                        deadline |-> <<2025, 6, 13>>],
    [edit |-> "create", capacities |-> {}, deadline |-> <<2025, 12, 31>>],
    [edit |-> "delete", capacities |-> {}, deadline |-> <<2025, 12, 31>>] }

\* the first call has returned; the store is changed and autoPlanJob is
\* called again for the same job
Rerun ==
  /\ pc = "done"
  /\ result = "ok"
  /\ previousPlan = Null
  /\ other = Null
  /\ previousPlan' = Some([plan |-> PlanOf(schedules, jobId), result |-> result])
  /\ \E ch \in ChangesBetweenCalls :
       /\ ch.deadline \in DeadlineDates
       /\ ch.capacities \in CapacityTables
       /\ capacities' = ch.capacities
       /\ jobs' = { IF r.id = jobId THEN [r EXCEPT !.deadlineDate = ch.deadline] ELSE r
                    : r \in jobs }
       /\ schedules' =
            IF ch.edit = "create"
              THEN createSchedule(schedules, nextScheduleId, jobId, StageId(1),
                                  <<2025, 6, 9>>, 4)
            ELSE IF ch.edit = "delete" THEN deleteOldestSchedule(schedules, jobId)
            ELSE schedules
       /\ nextScheduleId' =
            IF ch.edit = "create" THEN nextScheduleId + 1 ELSE nextScheduleId
  /\ schedulesAtCall' = schedules'
  /\ pc' = "start"
  /\ job' = Null
  /\ jobStagesData' = <<>>
  /\ batches' = <<>>
  /\ iterations' = 0
  /\ i' = 0
  /\ j' = 0
  /\ weekStart' = Null
  /\ existingSchedule' = Null
  /\ result' = "running"
  /\ writes' = <<>>
  /\ UNCHANGED <<activityTypes, stages, activityTypeStages, jobId, other,
                 implementation, helper, edit>>

SpecRerun == InitRerun /\ [][Next \/ Rerun]_vars

(***************************************************************************)
(* The same job planned by storage.ts autoPlanJob and then, on the store   *)
(* as it was at that call, by the C# JobsController.AutoPlanJob.           *)
(***************************************************************************)
CompareConfigs == LinearConfigs \cup RerunConfigs \cup ErrorConfigs

InitCompare ==
  \E cfg \in CompareConfigs, q \in Quantities, env \in Environments :
    InitWith(cfg, q, env)

\* the TypeScript call has ended; the store is put back and the C# controller
\* is called for the same job
RunCSharp ==
  /\ pc = "done"
  /\ implementation = "ts"
  /\ previousPlan = Null
  /\ other = Null
  /\ previousPlan' = Some([plan |-> PlanOf(schedules, jobId), result |-> result])
  /\ implementation' = "cs"
  /\ schedules' = schedulesAtCall
  /\ pc' = "start"
  /\ job' = Null
  /\ jobStagesData' = <<>>
  /\ batches' = <<>>
  /\ iterations' = 0
  /\ i' = 0
  /\ j' = 0
  /\ weekStart' = Null
  /\ existingSchedule' = Null
  /\ result' = "running"
  /\ writes' = <<>>
  /\ UNCHANGED <<jobs, activityTypes, stages, activityTypeStages, capacities,
                 nextScheduleId, jobId, schedulesAtCall, other, helper, edit>>

SpecCompare == InitCompare /\ [][Next \/ RunCSharp]_vars

(***************************************************************************)
(* Two calls of autoPlanJob in flight.  The calls run on one event loop:   *)
(* at every await (each store operation) the other call may run on.        *)
(***************************************************************************)
\* longest pipeline planned by two calls at once
MaxConcurrentStages == 2

\* pipelines without capped stage and with one capped stage
ConcurrentHoldSets(n) ==
  {{}} \cup { {h} : h \in { s \in HoldSpecs(n) : s.qty = 2 } }

ConcurrentConfigs ==
  UNION { [n : {k}, holds : ConcurrentHoldSets(k), profile : {<<0, 5>>},
           activityType : {"AT"}, jobId : {PlannedJobId}]
          : k \in 1..MaxConcurrentStages }

\* the rows a call finds when both calls start
RowsAtCalls == [arrival |-> <<2025, 6, 9>>, rows |-> EarlierSchedules]

\* the locals of the call that is running
Locals ==
  [jobId |-> jobId, pc |-> pc, job |-> job, jobStagesData |-> jobStagesData,
   batches |-> batches, iterations |-> iterations, i |-> i, j |-> j,
   weekStart |-> weekStart, existingSchedule |-> existingSchedule,
   result |-> result, schedulesAtCall |-> schedulesAtCall, writes |-> writes]

\* the positions at which the running call awaits a store operation
AwaitPoints == {"start", "clear", "batch", "write", "release", "releaseWrite"}

\* the running call waits on the store (or has ended) and the other call,
\* not yet ended, runs on
Yield ==
  /\ other # Null
  /\ pc \in AwaitPoints \cup {"done"}
  /\ Val(other).pc # "done"
  /\ other' = Some(Locals)
  /\ jobId' = Val(other).jobId
  /\ pc' = Val(other).pc
  /\ job' = Val(other).job
  /\ jobStagesData' = Val(other).jobStagesData
  /\ batches' = Val(other).batches
  /\ iterations' = Val(other).iterations
  /\ i' = Val(other).i
  /\ j' = Val(other).j
  /\ weekStart' = Val(other).weekStart
  /\ existingSchedule' = Val(other).existingSchedule
  /\ result' = Val(other).result
  /\ schedulesAtCall' = Val(other).schedulesAtCall
  /\ writes' = Val(other).writes
  /\ UNCHANGED <<jobs, activityTypes, stages, activityTypeStages, capacities,
                 schedules, nextScheduleId, previousPlan, implementation, helper, edit>>

\* two calls of autoPlanJob for the same job
InitSameJob ==
  \E cfg \in ConcurrentConfigs, q \in Quantities :
    InitCall(cfg, RowsAtCalls, { JobRow(PlannedJobId, cfg, q, RowsAtCalls) },
             Some(CallOf(PlannedJobId, RowsAtCalls.rows)))

SpecSameJob == InitSameJob /\ [][Next \/ Yield]_vars

\* calls of autoPlanJob for two different jobs with the same pipeline
InitTwoJobs ==
  \E cfg \in ConcurrentConfigs, q1 \in Quantities, q2 \in Quantities :
    /\ q1 <= q2
    /\ InitCall(cfg, RowsAtCalls,
                { JobRow(PlannedJobId, cfg, q1, RowsAtCalls),
                  JobRow(OtherJobId, cfg, q2, RowsAtCalls) },
                Some(CallOf(OtherJobId, RowsAtCalls.rows)))

SpecTwoJobs == InitTwoJobs /\ [][Next \/ Yield]_vars

(***************************************************************************)
(* A second call after the processing time of the final pipeline stage was *)
(* changed (updateActivityTypeStage).                                      *)
(***************************************************************************)
\* processingTimeDays given to the final stage between the calls
FinalStageDays == {0, 3, 9}

InitFinalStage ==
  \E cfg \in RerunConfigs, q \in Quantities :
    InitWith(cfg, q, [arrival |-> <<2025, 6, 12>>, rows |-> EarlierSchedules])

\* the first call has ended; the processing time of the final stage of the
\* job's pipeline is changed and autoPlanJob is called again
RerunFinalStage ==
  /\ pc = "done"
  /\ Len(jobStagesData) > 0
  /\ previousPlan = Null
  /\ other = Null
  /\ previousPlan' = Some([plan |-> PlanOf(schedules, jobId), result |-> result])
  /\ \E days \in FinalStageDays :
       /\ days # jobStagesData[Len(jobStagesData)].processingTimeDays
       /\ activityTypeStages' =
            { IF l.stageId = jobStagesData[Len(jobStagesData)].stageId
                THEN [l EXCEPT !.processingTimeDays = days] ELSE l
              : l \in activityTypeStages }
  /\ schedulesAtCall' = schedules
  /\ pc' = "start"
  /\ job' = Null
  /\ jobStagesData' = <<>>
  /\ batches' = <<>>
  /\ iterations' = 0
  /\ i' = 0
  /\ j' = 0
  /\ weekStart' = Null
  /\ existingSchedule' = Null
  /\ result' = "running"
  /\ writes' = <<>>
  /\ UNCHANGED <<jobs, activityTypes, stages, capacities, schedules, nextScheduleId,
                 jobId, other, implementation, helper, edit>>

SpecFinalStage == InitFinalStage /\ [][Next \/ RerunFinalStage]_vars

(***************************************************************************)
(* Capped stages with any release stage of the pipeline: a later stage,    *)
(* the capped stage itself or an earlier stage (releaseRemainingAtStageId  *)
(* is stored without validation).                                          *)
(***************************************************************************)
\* longest pipeline with capped stages releasing at any stage
MaxScopeStages == 3
\* proceedWithTestQty of these capped stages
ScopeHoldQtys == {1, 2}

ScopeHoldSpecs(n) == [at : 1..n, qty : ScopeHoldQtys, rel : 1..n]

\* one or two capped stages
ScopeHoldSets(n) ==
  { {h} : h \in ScopeHoldSpecs(n) }
  \cup UNION { { {h1, h2} : h2 \in { h \in ScopeHoldSpecs(n) : h1.at < h.at } }
               : h1 \in ScopeHoldSpecs(n) }

ScopeConfigs ==
  UNION { [n : {k}, holds : ScopeHoldSets(k), profile : {<<0, 5>>},
           activityType : {"AT"}, jobId : {PlannedJobId}]
          : k \in 1..MaxScopeStages }

InitReleaseScope ==
  \E cfg \in ScopeConfigs, q \in Quantities :
    InitWith(cfg, q, [arrival |-> <<2025, 6, 12>>, rows |-> {}])

SpecReleaseScope == InitReleaseScope /\ [][Next]_vars

(***************************************************************************)
(* Capped stages with any stored proceedWithTestQty: the column is a       *)
(* nullable integer without a check, and the stage routes validate it as   *)
(* z.number(), so zero and negative values are stored.                     *)
(***************************************************************************)
\* longest pipeline with a capped stage of any stored quantity
MaxStoredQtyStages == 3
\* stages.proceedWithTestQty as stored: negative, zero, positive
StoredQtys == {-2, 0, 2}

StoredQtyConfigs ==
  UNION { [n : {k},
           holds : { {h} : h \in { s \in [at : 1..k, qty : StoredQtys, rel : 1..k] :
                                     s.at < s.rel } },
           profile : {<<0, 5>>},
           activityType : {"AT"}, jobId : {PlannedJobId}]
          : k \in 1..MaxStoredQtyStages }

InitStoredQty ==
  \E cfg \in StoredQtyConfigs, q \in Quantities, env \in Environments :
    InitWith(cfg, q, env)

SpecStoredQty == InitStoredQty /\ [][Next]_vars

(***************************************************************************)
(* The date helpers called on their own: addBusinessDays applied in a      *)
(* chain of calls from a start date, and getWeekStart applied to two       *)
(* dates.  The start dates lie around a year end, the end of February in a *)
(* leap year and in a common year, and in June 2025.                       *)
(***************************************************************************)
\* days in each window of start dates
MaxWindowDays == 10
\* days between the two dates given to getWeekStart
MaxGapDays == 8
\* business days added from a start date, over all calls of a chain
MaxBusinessDays == 11
\* calls of addBusinessDays in a chain
MaxHelperCalls == 3

\* the first day of each window
WindowStarts == { <<2024, 12, 25>>, <<2024, 2, 24>>, <<2025, 2, 24>>, <<2025, 6, 7>> }

HelperDates ==
  { ParseDate(s) + k : s \in WindowStarts, k \in 0..(MaxWindowDays - 1) }

InitHelpers ==
  /\ \E d \in HelperDates, gap \in 0..MaxGapDays :
       helper = Some([startDate |-> d, businessDays |-> 0, calls |-> 0,
                      result |-> d, date |-> d, laterDate |-> d + gap,
                      weekStart |-> Null, laterWeekStart |-> Null,
                      weekStartAgain |-> Null])
  /\ jobs = {}
  /\ activityTypes = ActivityTypesTable
  /\ stages = {}
  /\ activityTypeStages = {}
  /\ capacities = {}
  /\ schedules = {}
  /\ nextScheduleId = 1
  /\ jobId = PlannedJobId
  /\ pc = "done"
  /\ job = Null
  /\ jobStagesData = <<>>
  /\ batches = <<>>
  /\ iterations = 0
  /\ i = 0
  /\ j = 0
  /\ weekStart = Null
  /\ existingSchedule = Null
  /\ result = "none"
  /\ schedulesAtCall = {}
  /\ writes = <<>>
  /\ other = Null
  /\ previousPlan = Null
  /\ implementation = "ts"
  /\ edit = Null

\* what a call of a helper leaves alone
planner == <<jobs, activityTypes, stages, activityTypeStages, capacities, schedules,
             nextScheduleId, jobId, pc, job, jobStagesData, batches, iterations,
             i, j, weekStart, existingSchedule, result, schedulesAtCall, writes,
             other, previousPlan, implementation, edit>>

\* addBusinessDays(result of the chain so far, businessDays)
CallAddBusinessDays ==
  /\ helper # Null
  /\ Val(helper).calls < MaxHelperCalls
  /\ \E businessDays \in 0..(MaxBusinessDays - Val(helper).businessDays) :
       helper' = Some([Val(helper) EXCEPT
                         !.result = addBusinessDays(@, businessDays),
                         !.businessDays = @ + businessDays,
                         !.calls = @ + 1])
  /\ UNCHANGED planner

\* getWeekStart(date), getWeekStart(laterDate), and getWeekStart of the week
\* start returned for date
CallGetWeekStart ==
  /\ helper # Null
  /\ Val(helper).weekStart = Null
  /\ helper' = Some([Val(helper) EXCEPT
                       !.weekStart = Some(getWeekStart(Val(helper).date)),
                       !.laterWeekStart = Some(getWeekStart(Val(helper).laterDate)),
                       !.weekStartAgain =
                          Some(getWeekStart(ParseDate(getWeekStart(Val(helper).date))))])
  /\ UNCHANGED planner

NextHelpers == CallAddBusinessDays \/ CallGetWeekStart

SpecHelpers == InitHelpers /\ [][NextHelpers]_vars

(***************************************************************************)
(* The passes of the main loop with the active batches taken in any order: *)
(* the job is planned as the code orders the batches, and then again on    *)
(* the same store with every pass free to order them otherwise.            *)
(***************************************************************************)
\* longest pipeline planned in both orders
MaxOrderStages == 4

OrderConfigs ==
  UNION { [n : {k}, holds : HoldSets(k), profile : {<<0, 5>>, <<7, 7>>},
           activityType : {"AT"}, jobId : {PlannedJobId}] : k \in 1..MaxOrderStages }

InitAnyOrder ==
  \E cfg \in OrderConfigs, q \in Quantities :
    InitWith(cfg, q, [arrival |-> <<2025, 6, 12>>, rows |-> {}])

\* the sequences that hold the elements of s, each once, in any order
RECURSIVE Orderings(_)
Orderings(s) ==
  IF Len(s) = 0 THEN { <<>> }
  ELSE UNION { { <<s[k]>> \o t
                 : t \in Orderings(SubSeq(s, 1, k - 1) \o SubSeq(s, k + 1, Len(s))) }
               : k \in 1..Len(s) }

\* the outcomes of a sort that puts the not-held batches first, in any order
\* among themselves, and keeps the held batches in their order
SortBatchesAnyOrder(bs) ==
  { t \o SelectSeq(bs, LAMBDA b : b.held)
    : t \in Orderings(SelectSeq(bs, LAMBDA b : ~b.held)) }

\* the batches a pass processes: not held, not completed
ActiveBatches(bs) ==
  SelectSeq(bs, LAMBDA b : ~b.held /\ ~b.schedulingCompleted)

\* the first call has returned; autoPlanJob is called again on the same store
RerunAnyOrder ==
  /\ pc = "done"
  /\ result = "ok"
  /\ previousPlan = Null
  /\ other = Null
  /\ previousPlan' = Some([plan |-> PlanOf(schedules, jobId), result |-> result,
                           writes |-> writes])
  /\ schedulesAtCall' = schedules
  /\ pc' = "start"
  /\ job' = Null
  /\ jobStagesData' = <<>>
  /\ batches' = <<>>
  /\ iterations' = 0
  /\ i' = 0
  /\ j' = 0
  /\ weekStart' = Null
  /\ existingSchedule' = Null
  /\ result' = "running"
  /\ writes' = <<>>
  /\ UNCHANGED <<jobs, activityTypes, stages, activityTypeStages, capacities,
                 schedules, nextScheduleId, jobId, other, implementation, helper, edit>>

\* the while condition of the second call; on entry iterations++ and a sort
\* that leaves the active batches in an order other than the code's
LoopTestAnyOrder ==
  /\ pc = "loop"
  /\ previousPlan # Null
  /\ \E k \in 1..Len(batches) : ~batches[k].schedulingCompleted
  /\ iterations < MaxIterations
  /\ iterations' = iterations + 1
  /\ batches' \in SortBatchesAnyOrder(batches)
  /\ ActiveBatches(batches') # ActiveBatches(SortBatches(batches))
  /\ i' = 0
  /\ pc' = "batch"
  /\ UNCHANGED <<tables, existingSchedule, schedules, nextScheduleId, jobId, job, jobStagesData,
                 j, weekStart, result, schedulesAtCall, writes>>

SpecAnyOrder == InitAnyOrder /\ [][Next \/ RerunAnyOrder \/ LoopTestAnyOrder]_vars

(***************************************************************************)
(* Any stage graph with distinct stages: capped stages with any stored     *)
(* release stage (a stage of the pipeline, none, or a stage outside the    *)
(* pipeline), down to a pipeline of one stage.                             *)
(***************************************************************************)
\* longest pipeline with an arbitrary release configuration
MaxGraphStages == 3
\* proceedWithTestQty of these capped stages
GraphHoldQtys == {0, 2}

GraphHoldSpecs(n) == [at : 1..n, qty : GraphHoldQtys, rel : (-1)..n]

\* no, one or two capped stages
GraphHoldSets(n) ==
  {{}} \cup { {h} : h \in GraphHoldSpecs(n) }
       \cup UNION { { {h1, h2} : h2 \in { h \in GraphHoldSpecs(n) : h1.at < h.at } }
                    : h1 \in GraphHoldSpecs(n) }

GraphConfigs ==
  UNION { [n : {k}, holds : GraphHoldSets(k), profile : {<<0, 5>>},
           activityType : {"AT"}, jobId : {PlannedJobId}]
          : k \in 1..MaxGraphStages }

InitAnyGraph ==
  \E cfg \in GraphConfigs, q \in Quantities :
    InitWith(cfg, q, [arrival |-> <<2025, 6, 12>>, rows |-> {}])

SpecAnyGraph == InitAnyGraph /\ [][Next]_vars

(***************************************************************************)
(* Manual edits of table schedules: createSchedule, updateSchedule,        *)
(* deleteSchedule and moveSchedule of storage.ts, called one after the     *)
(* other on the rows of one job.                                           *)
(***************************************************************************)
\* the sum of scheduledSamples over a set of rows
RECURSIVE SumSamples(_)
SumSamples(rows) ==
  IF rows = {} THEN 0
  ELSE LET r == CHOOSE x \in rows : TRUE
       IN r.scheduledSamples + SumSamples(rows \ {r})

\* the rows of (job, stage, week)
selectSchedules(rows, id, stageId, week) ==
  { r \in rows : r.jobId = id /\ r.stageId = stageId /\ r.weekStart = week }

\* update schedules set scheduledSamples = quantity where job, stage and week
setScheduledSamples(rows, id, stageId, week, quantity) ==
  { IF r.jobId = id /\ r.stageId = stageId /\ r.weekStart = week
      THEN [r EXCEPT !.scheduledSamples = quantity] ELSE r : r \in rows }

\* a variant of the validation that accepts every quantity
validateSequentialStageRules_Accept(rows, id, stageId, week, scheduledSamples) ==
  "ok"

\* validateSequentialStageRules: "ok" or the error thrown
validateSequentialStageRules(rows, id, stageId, week, scheduledSamples) ==
  LET jobWithActivityType ==
        { p \in jobs \X activityTypes : p[1].id = id /\ p[1].activityType = p[2].name }
  IN IF jobWithActivityType = {} THEN "JobNotFound"
     ELSE IF { s \in stages : s.id = stageId } = {} THEN "StageNotFound"
     ELSE
       LET activityType == (CHOOSE p \in jobWithActivityType : TRUE)[2]
           applicableStages ==
             OrderByStageOrder(JoinStages(activityTypeStages, stages, activityType.id))
           currentStageIndex == findIndex(applicableStages, Some(stageId))
       IN IF currentStageIndex = -1 THEN "StageNotApplicable"
          ELSE IF currentStageIndex = 0 THEN "ok"
          ELSE
            LET previousApplicableStage == applicableStages[currentStageIndex]
                jobSchedules ==
                  { r \in JobSchedules(rows, id) : \E s \in stages : s.id = r.stageId }
                totalPreviousStageOutput ==
                  SumSamples({ r \in jobSchedules :
                                 r.stageId = previousApplicableStage.stage.id })
                totalCurrentStageScheduled ==
                  SumSamples({ r \in jobSchedules :
                                 r.stageId = stageId /\ r.weekStart # week })
            IN IF totalCurrentStageScheduled + scheduledSamples > totalPreviousStageOutput
                 THEN "CannotSchedule" ELSE "ok"

\* updateSchedule: the validation, then update ... where, or insert when no
\* row was updated
updateSchedule(rows, serial, id, stageId, week, scheduledSamples) ==
  LET validation == validateSequentialStageRules(rows, id, stageId, week, scheduledSamples)
  IN IF validation # "ok"
       THEN [rows |-> rows, serial |-> serial, result |-> validation]
     ELSE IF selectSchedules(rows, id, stageId, week) # {}
       THEN [rows |-> setScheduledSamples(rows, id, stageId, week, scheduledSamples),
             serial |-> serial, result |-> "ok"]
     ELSE [rows |-> createSchedule(rows, serial, id, stageId, week, scheduledSamples),
           serial |-> serial + 1, result |-> "ok"]

\* moveSchedule, where fromSchedule and toSchedule are the results of the two
\* selects in the order the store returned them (Null: no row)
moveSchedule(rows, serial, id, stageId, fromWeek, toWeek, quantity, fromSchedule, toSchedule) ==
  IF fromSchedule = Null
    THEN [rows |-> rows, serial |-> serial, result |-> "SourceNotFound"]
  ELSE IF Val(fromSchedule).scheduledSamples < quantity
    THEN [rows |-> rows, serial |-> serial, result |-> "NotEnoughSamples"]
  ELSE
    LET newFromQuantity == Val(fromSchedule).scheduledSamples - quantity
        reduced == setScheduledSamples(rows, id, stageId, fromWeek, newFromQuantity)
        newToQuantity ==
          IF toSchedule # Null THEN Val(toSchedule).scheduledSamples + quantity
          ELSE quantity
        validation ==
          validateSequentialStageRules(reduced, id, stageId, toWeek, newToQuantity)
        written ==
          IF toSchedule # Null
            THEN setScheduledSamples(reduced, id, stageId, toWeek, newToQuantity)
            ELSE createSchedule(reduced, serial, id, stageId, toWeek, quantity)
    IN IF validation # "ok"
         THEN \* catch: the source rows get the quantity read at the start
              [rows |-> setScheduledSamples(reduced, id, stageId, fromWeek,
                                            Val(fromSchedule).scheduledSamples),
               serial |-> serial, result |-> validation]
         ELSE [rows |-> IF newFromQuantity = 0
                          THEN deleteSchedule(written, id, stageId, fromWeek)
                          ELSE written,
               serial |-> IF toSchedule # Null THEN serial ELSE serial + 1,
               result |-> "ok"]

\* the first row of a select without ORDER BY: any of the rows, Null if none
FirstOf(rows) == IF rows = {} THEN { Null } ELSE { Some(r) : r \in rows }

\* pipeline of the job whose rows are edited
MaxEditStages == 2
\* the serial of schedules.id does not pass this value
MaxScheduleId == 2
\* no row is given more samples than this
MaxRowSamples == 3

EditConfig ==
  [n |-> MaxEditStages, holds |-> {}, profile |-> <<5, 5>>,
   activityType |-> "AT", jobId |-> PlannedJobId]

EditStageIds == { StageId(k) : k \in 1..MaxEditStages }
EditWeeks == { <<2025, 6, 9>>, <<2025, 6, 16>> }
EditQuantities == 1..2

\* a job with an empty schedule, and no call of autoPlanJob in flight
InitEdits ==
  /\ jobs = { JobRow(PlannedJobId, EditConfig, 3,
                     [arrival |-> <<2025, 6, 9>>, rows |-> {}]) }
  /\ activityTypes = ActivityTypesTable
  /\ stages = StagesTable(EditConfig)
  /\ activityTypeStages = ActivityTypeStagesTable(EditConfig)
  /\ capacities = {}
  /\ schedules = {}
  /\ nextScheduleId = 1
  /\ jobId = PlannedJobId
  /\ pc = "done"
  /\ job = Null
  /\ jobStagesData = <<>>
  /\ batches = <<>>
  /\ iterations = 0
  /\ i = 0
  /\ j = 0
  /\ weekStart = Null
  /\ existingSchedule = Null
  /\ result = "none"
  /\ schedulesAtCall = {}
  /\ writes = <<>>
  /\ other = Null
  /\ previousPlan = Null
  /\ implementation = "ts"
  /\ helper = Null
  /\ edit = Null

\* what a manual edit leaves alone
unedited == <<jobs, activityTypes, stages, activityTypeStages, capacities, jobId,
              pc, job, jobStagesData, batches, iterations, i, j, weekStart,
              existingSchedule, writes, other, previousPlan, implementation, helper>>

\* the bounds on the serial and on the samples of a row
WithinEditBounds(outcome) ==
  /\ outcome.serial <= MaxScheduleId + 1
  /\ \A r \in outcome.rows : r.scheduledSamples <= MaxRowSamples

\* the record of a call: the operation and its arguments
EditCall(op, stageId, fromWeek, toWeek, quantity) ==
  Some([op |-> op, stageId |-> stageId, fromWeek |-> fromWeek,
        toWeek |-> toWeek, quantity |-> quantity])

\* POST /api/schedules
CallCreateSchedule ==
  /\ \E stageId \in EditStageIds, week \in EditWeeks, quantity \in EditQuantities :
       LET outcome ==
             [rows |-> createSchedule(schedules, nextScheduleId, jobId, stageId,
                                      week, quantity),
              serial |-> nextScheduleId + 1, result |-> "ok"]
       IN /\ WithinEditBounds(outcome)
          /\ schedules' = outcome.rows
          /\ nextScheduleId' = outcome.serial
          /\ result' = outcome.result
          /\ edit' = EditCall("createSchedule", stageId, week, week, quantity)
  /\ schedulesAtCall' = schedules
  /\ UNCHANGED unedited

\* PUT /api/schedules/:jobId/:stageId/:weekStart
CallUpdateSchedule ==
  /\ \E stageId \in EditStageIds, week \in EditWeeks,
        quantity \in {0} \cup EditQuantities :
       LET outcome == updateSchedule(schedules, nextScheduleId, jobId, stageId,
                                     week, quantity)
       IN /\ WithinEditBounds(outcome)
          /\ schedules' = outcome.rows
          /\ nextScheduleId' = outcome.serial
          /\ result' = outcome.result
          /\ edit' = EditCall("updateSchedule", stageId, week, week, quantity)
  /\ schedulesAtCall' = schedules
  /\ UNCHANGED unedited

\* DELETE /api/schedules/:jobId/:stageId/:weekStart
CallDeleteSchedule ==
  /\ \E stageId \in EditStageIds, week \in EditWeeks :
       /\ schedules' = deleteSchedule(schedules, jobId, stageId, week)
       /\ edit' = EditCall("deleteSchedule", stageId, week, week, 0)
  /\ result' = "ok"
  /\ schedulesAtCall' = schedules
  /\ UNCHANGED <<unedited, nextScheduleId>>

\* POST /api/schedules/:jobId/:stageId/move
CallMoveSchedule ==
  /\ \E stageId \in EditStageIds, fromWeek \in EditWeeks, toWeek \in EditWeeks,
        quantity \in EditQuantities :
       \E fromSchedule \in FirstOf(selectSchedules(schedules, jobId, stageId, fromWeek)),
          toSchedule \in FirstOf(selectSchedules(schedules, jobId, stageId, toWeek)) :
         LET outcome == moveSchedule(schedules, nextScheduleId, jobId, stageId,
                                     fromWeek, toWeek, quantity, fromSchedule,
                                     toSchedule)
         IN /\ WithinEditBounds(outcome)
            /\ schedules' = outcome.rows
            /\ nextScheduleId' = outcome.serial
            /\ result' = outcome.result
            /\ edit' = EditCall("moveSchedule", stageId, fromWeek, toWeek, quantity)
  /\ schedulesAtCall' = schedules
  /\ UNCHANGED unedited

NextManualEdits == CallUpdateSchedule \/ CallDeleteSchedule \/ CallMoveSchedule

\* updateSchedule, deleteSchedule and moveSchedule from an empty schedule
SpecManualEdits == InitEdits /\ [][NextManualEdits]_vars

\* the four operations that write table schedules
SpecStoreEdits == InitEdits /\ [][NextManualEdits \/ CallCreateSchedule]_vars

(***************************************************************************)
(* The messages of the errors autoPlanJob throws, as texts: sequences of   *)
(* words, blanks and quotation marks, a name or number being one word.     *)
(***************************************************************************)
\* the words of a text with one blank between them
RECURSIVE Spaced(_)
Spaced(words) ==
  IF Len(words) <= 1 THEN words
  ELSE <<words[1], " ">> \o Spaced(Tail(words))

\* the template literals and strings of the throw statements of autoPlanJob
\* (a TypeError carries the message of the runtime)
ErrorMessage(error, id, activityType) ==
  IF error = "JobNotFound"
    THEN Spaced(<<"Job", "with", "ID", ToString(id), "not", "found">>)
  ELSE IF error = "ActivityTypeNotFound"
    THEN Spaced(<<"Activity", "type">>) \o <<" ", "'", activityType, "'", " ">>
           \o Spaced(<<"not", "found">>)
  ELSE IF error = "NoApplicableStages"
    THEN Spaced(<<"No", "stages", "found", "for", "activity", "type", activityType>>)
  ELSE IF error = "Deadlock"
    THEN Spaced(<<"Auto-planning", "deadlock:", "no", "progress", "possible">>)
  ELSE IF error = "MaxIterations"
    THEN Spaced(<<"Auto-planning", "exceeded", "maximum", "iterations">>)
  ELSE <<error>>

\* String.prototype.includes, which expect(...).rejects.toThrow(text) applies
\* to the message
Includes(message, text) ==
  \E offset \in 0..(Len(message) - Len(text)) :
    SubSeq(message, offset + 1, offset + Len(text)) = text

(***************************************************************************)
(* Vocabulary of the properties.                                           *)
(***************************************************************************)
\* total of the planned job's rows of a stage, over all weeks
StageTotal(stageId) ==
  SumSamples({ r \in JobSchedules(schedules, jobId) : r.stageId = stageId })

\* the planned job's rows as (pipeline position, week, quantity)
PlanRows ==
  { <<findIndex(jobStagesData, Some(r.stageId)) + 1, r.weekStart, r.scheduledSamples>> :
    r \in JobSchedules(schedules, jobId) }

Positions == 1..Len(jobStagesData)
TotalSamples == Val(job).totalSamples
Planned == job # Null /\ Len(jobStagesData) > 0
Finished == pc = "done" /\ Planned
Returned == Finished /\ result = "ok"

\* positions of the capped stages of the pipeline
Capped == { k \in Positions : jobStagesData[k].stage.proceedWithTestQty # Null }
HoldQtyAt(k) == Val(jobStagesData[k].stage.proceedWithTestQty)
\* pipeline position of the release stage of the capped stage at k (0: none)
ReleaseAt(k) ==
  findIndex(jobStagesData, jobStagesData[k].stage.releaseRemainingAtStageId) + 1

\* every release stage is strictly later in the pipeline than its capped stage
WellFormed == \A k \in Capped : ReleaseAt(k) > k

\* exactly one capped stage, with P < Q and a later release stage
OneHold ==
  /\ Planned
  /\ Cardinality(Capped) = 1
  /\ WellFormed
  /\ \A k \in Capped : HoldQtyAt(k) >= 1 /\ HoldQtyAt(k) < TotalSamples

\* the indexes of the writes into the stage at pipeline position k
WritesInto(k) ==
  { n \in 1..Len(writes) : writes[n].stageId = jobStagesData[k].stageId }

(***************************************************************************)
(* C1  Conservation without holds: when the pipeline has no capped stage   *)
(* and Q >= 1, autoPlanJob returns and every stage of the pipeline totals  *)
(* Q over all weeks, for every pipeline length.                            *)
(***************************************************************************)
C1_ConservationWithoutHolds ==
  (Finished /\ Capped = {} /\ TotalSamples >= 1) =>
     /\ result = "ok"
     /\ \A k \in Positions : StageTotal(jobStagesData[k].stageId) = TotalSamples

HoldCase ==
  /\ Planned
  /\ WellFormed
  /\ Cardinality(Capped) \in {1, 2}
  /\ \A k \in Capped : HoldQtyAt(k) < TotalSamples
  /\ \A k, m \in Capped : ReleaseAt(k) = ReleaseAt(m)

\* the stages before the first capped stage, and the final stage
UncappedEnds ==
  { k \in Positions : \A c \in Capped : k < c } \cup { Len(jobStagesData) }

TheHold == CHOOSE k \in Capped : TRUE
\* the indexes of the writes made by the release scan
Releases == { n \in 1..Len(writes) : writes[n].kind = "release" }
\* the index of the first write into the stage at pipeline position k
FirstWriteInto(k) == CHOOSE n \in WritesInto(k) : \A m \in WritesInto(k) : n <= m

ScenarioConfig(days) ==
  [n |-> 5, holds |-> { [at |-> 2, qty |-> 2, rel |-> 4] },
   profile |-> <<days, days>>, activityType |-> "AT", jobId |-> PlannedJobId]

Scenario(days, arrivals) ==
  /\ stages = StagesTable(ScenarioConfig(days))
  /\ activityTypeStages = ActivityTypeStagesTable(ScenarioConfig(days))
  /\ \E a \in arrivals :
       jobs = { [id |-> PlannedJobId, activityType |-> "AT",
                 totalSamples |-> 15, materialArrivesDate |-> a,
                 deadlineDate |-> <<2025, 12, 31>>] }
  /\ jobId = PlannedJobId

\* W1 Stage1=15; W2 Stage2=2; W3 Stage3=2; W4 Stage4=2 and Stage2=13;
\* W5 Stage5=2 and Stage3=13; W6 Stage4=13; W7 Stage5=13
ExpectedPlan ==
  { <<1, <<2025, 6, 9>>, 15>>,
    <<2, <<2025, 6, 16>>, 2>>,
    <<3, <<2025, 6, 23>>, 2>>,
    <<4, <<2025, 6, 30>>, 2>>, <<2, <<2025, 6, 30>>, 13>>,
    <<5, <<2025, 7, 7>>, 2>>,  <<3, <<2025, 7, 7>>, 13>>,
    <<4, <<2025, 7, 14>>, 13>>,
    <<5, <<2025, 7, 21>>, 13>> }

\* C5: with processingTimeDays = 5 everywhere and arrival on Monday of W1 the
\* job's rows after autoPlanJob are exactly the nine rows of the expected plan.
C5_ScenarioFiveBusinessDays ==
  (pc = "done" /\ Scenario(5, {<<2025, 6, 9>>})) =>
     /\ result = "ok"
     /\ PlanRows = ExpectedPlan
     /\ Cardinality(JobSchedules(schedules, jobId)) = 9

C5_Witness ==
  pc = "done" /\ Scenario(5, {<<2025, 6, 9>>}) /\ Len(writes) = 9

\* C6: with processingTimeDays = 7 everywhere and arrival in week 1 the plan
\* is the same one, in consecutive calendar weeks.
C6_ScenarioSevenDays ==
  (pc = "done" /\ Scenario(7, {<<2025, 6, 9>>, <<2025, 6, 12>>})) =>
     /\ result = "ok"
     /\ PlanRows = ExpectedPlan

(***************************************************************************)
(* C7  Processing-time dwell: every quantity written into a stage k+1 is   *)
(* dated no earlier than addBusinessDays(date its units were scheduled     *)
(* into stage k, processingTimeDays of stage k).                           *)
(***************************************************************************)
C7_DwellHonoured ==
  Planned =>
    \A n \in 1..Len(writes) :
      LET k == findIndex(jobStagesData, Some(writes[n].stageId)) + 1
      IN (k > 1 /\ writes[n].since # Null) =>
           writes[n].date >= addBusinessDays(Val(writes[n].since),
                                             jobStagesData[k - 1].processingTimeDays)

(***************************************************************************)
(* C8  Hold cap until release: for a capped stage S (hold quantity P,      *)
(* release stage R), as long as nothing has been scheduled into R, S and   *)
(* every stage after S up to R hold at most P in total, at every point of  *)
(* the run after the job's earlier rows were cleared.                      *)
(***************************************************************************)
C8_HoldCapUntilRelease ==
  (Planned /\ pc # "clear" /\ WellFormed) =>
    \A s \in Capped :
      WritesInto(ReleaseAt(s)) = {} =>
        \A t \in s..ReleaseAt(s) :
          StageTotal(jobStagesData[t].stageId) <= HoldQtyAt(s)

\* every batch is marked completed
AllCompleted == \A k \in 1..Len(batches) : batches[k].schedulingCompleted

(***************************************************************************)
(* C9  Termination without error on valid input: with Q >= 1 and a         *)
(* well-formed stage graph autoPlanJob ends with every batch completed and *)
(* without error; the deadlock error is raised only while some batch is    *)
(* not completed.                                                          *)
(***************************************************************************)
C9_TerminatesWithoutError ==
  (Finished /\ WellFormed /\ TotalSamples >= 1) =>
     /\ result = "ok"
     /\ AllCompleted
     /\ result = "Deadlock" => ~AllCompleted

(***************************************************************************)
(* C10  Errors abort without partial persisted state: when autoPlanJob     *)
(* ends with an error, the job's rows are the rows from before the call.   *)
(***************************************************************************)
C10_ErrorsLeaveRowsUnchanged ==
  (pc = "done" /\
   result \in {"ActivityTypeNotFound", "NoApplicableStages", "Deadlock", "MaxIterations"})
    => JobSchedules(schedules, jobId) = JobSchedules(schedulesAtCall, jobId)

\* the job of the call exists and its activityType names no activity type
NoSuchActivityType ==
  \E r \in jobs :
    r.id = jobId /\ ~\E a \in activityTypes : a.name = r.activityType

\* the job's activity type exists and no stage is linked to it
NoLinkedStages ==
  \E r \in jobs :
    /\ r.id = jobId
    /\ \E a \in activityTypes :
         /\ a.name = r.activityType
         /\ ~\E l \in activityTypeStages : l.activityTypeId = a.id

(***************************************************************************)
(* C11  Configuration errors are raised before any write: on a job whose   *)
(* activityType names no activity type autoPlanJob ends with               *)
(* ActivityTypeNotFound, on one whose activity type has no linked stage    *)
(* with NoApplicableStages; in both cases, at every point of the call, no  *)
(* batch exists, the table schedules is the one of the call and            *)
(* scheduleQuantityForWeek was not called.                                 *)
(***************************************************************************)
C11_ConfigurationErrorsBeforeWrites ==
  (NoSuchActivityType \/ NoLinkedStages) =>
     /\ pc \in {"start", "done"}
     /\ pc = "done" =>
          result = IF NoSuchActivityType THEN "ActivityTypeNotFound"
                   ELSE "NoApplicableStages"
     /\ batches = <<>>
     /\ schedules = schedulesAtCall
     /\ writes = <<>>

\* the unknown-activity-type error was raised on a job that had rows before the call
C11_Witness ==
  /\ pc = "done"
  /\ NoSuchActivityType
  /\ result = "ActivityTypeNotFound"
  /\ JobSchedules(schedulesAtCall, jobId) # {}

\* the capped stages whose release stage is unset, outside the pipeline or
\* earlier in the pipeline
Malformed == { k \in Capped : ReleaseAt(k) < k }

\* a batch is being held back at the stage at position k, or one was and has
\* been released into it
HeldBackAt(k) ==
  \/ \E b \in 1..Len(batches) :
       /\ batches[b].held
       /\ findIndex(jobStagesData, batches[b].lastScheduledStage) + 1 = k - 1
  \/ \E n \in WritesInto(k) : writes[n].kind = "release"

(***************************************************************************)
(* C12  Malformed release configuration is reported, not accepted: with a  *)
(* capped stage (P < Q) whose release stage is unset, earlier in the       *)
(* pipeline or outside the pipeline, at which a batch was held back,       *)
(* autoPlanJob ends with the deadlock or max-iteration error; it does not  *)
(* return while a batch is still held.                                     *)
(***************************************************************************)
C12_MalformedReleaseReported ==
  Finished =>
     /\ (\E k \in Malformed : HoldQtyAt(k) < TotalSamples /\ HeldBackAt(k))
          => result \in {"Deadlock", "MaxIterations"}
     /\ result = "ok" => \A b \in 1..Len(batches) : ~batches[b].held

\* what does hold on these pipelines: autoPlanJob never returns with a batch held
ReturnsWithoutHeldBatch ==
  (Finished /\ result = "ok") => \A b \in 1..Len(batches) : ~batches[b].held

RECURSIVE SumQuantities(_, _)
\* the sum of the quantities of the writes with the indexes in ns
SumQuantities(log, ns) ==
  IF ns = {} THEN 0
  ELSE LET n == CHOOSE x \in ns : TRUE
       IN log[n].quantity + SumQuantities(log, ns \ {n})

\* one row per (stage, week) of a log of writes, with the sum of the
\* quantities written for it
RowsFrom(log) ==
  { <<log[n].stageId, log[n].weekStart,
      SumQuantities(log, { m \in 1..Len(log) :
                             /\ log[m].stageId = log[n].stageId
                             /\ log[m].weekStart = log[n].weekStart })>>
    : n \in 1..Len(log) }

\* the rows a call that ran alone leaves for its job: one row per (stage,
\* week) it wrote, with the sum of its quantities
PlanFrom(log) == [rows |-> RowsFrom(log), count |-> Cardinality(RowsFrom(log))]

(***************************************************************************)
(* C13  Idempotence and independence from prior rows: when autoPlanJob     *)
(* returns, the job's rows are exactly one row per (stage, week) written   *)
(* by this call with the sum of this call's quantities, whatever rows the  *)
(* job had before; and a second call after the first one returned, also    *)
(* after manual edits of the job's rows, leaves the same (stage, week,     *)
(* quantity) rows as the first.                                            *)
(***************************************************************************)
C13_IdempotentAndIndependent ==
  Returned =>
     /\ PlanOf(schedules, jobId) = PlanFrom(writes)
     /\ previousPlan # Null => PlanOf(schedules, jobId) = Val(previousPlan).plan

\* the second call has returned; at its start the job had the rows of the
\* first plan and a row created by hand in a week of the plan
C13_Witness ==
  /\ Returned
  /\ previousPlan # Null
  /\ PlanOf(schedulesAtCall, jobId).count > Val(previousPlan).plan.count
  /\ \E n \in 1..Len(writes) : writes[n].kind = "release"

\* both calls in flight have ended
BothDone == other # Null /\ pc = "done" /\ Val(other).pc = "done"

(***************************************************************************)
(* C14  Same-job concurrency: for every interleaving of two autoPlanJob    *)
(* calls on the same job, when both have returned the job's rows are the   *)
(* rows of a single run: one row per (stage, week) of the plan with the    *)
(* plan's quantity, nothing duplicated, doubled or lost.                   *)
(***************************************************************************)
C14_SameJobCallsSerialized ==
  (BothDone /\ result = "ok" /\ Val(other).result = "ok" /\ jobId = Val(other).jobId)
     => PlanOf(schedules, jobId) = PlanFrom(writes)

(***************************************************************************)
(* C15  Reader isolation: a reader of the job's rows during autoPlanJob    *)
(* sees the rows from before the call or the rows of the finished plan:    *)
(* every step of the call that changes the job's rows starts from the rows *)
(* from before the call, so the rows change once (clear-then-write is one  *)
(* atomic unit).                                                           *)
(***************************************************************************)
C15_ReaderIsolation ==
  [][JobSchedules(schedules', jobId) # JobSchedules(schedules, jobId)
       => JobSchedules(schedules, jobId) = JobSchedules(schedulesAtCall, jobId)]_vars

\* the rows a call with the locals loc leaves for its job when it runs alone:
\* the rows from before the call up to its delete, afterwards one row per
\* (stage, week) it has written, with the sum of its quantities
RowsAsAlone(loc) ==
  IF loc.batches = <<>>
    THEN PlanOf(loc.schedulesAtCall, loc.jobId)
    ELSE PlanFrom(loc.writes)

(***************************************************************************)
(* C16  Different jobs are independent: in every interleaving of           *)
(* autoPlanJob(A) and autoPlanJob(B), A # B, at every point the rows of    *)
(* each job are the rows its own call leaves when it runs alone (a call    *)
(* touches no row of the other job), and two jobs with the same quantity,  *)
(* arrival date and pipeline end with the same plan.                       *)
(***************************************************************************)
C16_DifferentJobsIndependent ==
  (other # Null /\ jobId # Val(other).jobId) =>
     /\ PlanOf(schedules, jobId) = RowsAsAlone(Locals)
     /\ PlanOf(schedules, Val(other).jobId) = RowsAsAlone(Val(other))
     /\ (BothDone /\ \A a, b \in jobs : a.totalSamples = b.totalSamples)
          => PlanOf(schedules, jobId) = PlanOf(schedules, Val(other).jobId)

\* both calls have returned and their writes were interleaved: a row of one
\* job was inserted between two rows of the other job
C16_Witness ==
  /\ BothDone
  /\ jobId # Val(other).jobId
  /\ result = "ok" /\ Val(other).result = "ok"
  /\ \E r1, r2, r3 \in schedules :
       /\ r1.id < r2.id /\ r2.id < r3.id
       /\ r1.jobId = r3.jobId /\ r1.jobId # r2.jobId
       /\ r1.id > Cardinality(EarlierSchedules)

\* the second call found the rows the first call left: between the calls only
\* table capacities and the job's deadlineDate were changed
OnlyCapacityAndDeadlineChanged ==
  /\ previousPlan # Null
  /\ PlanOf(schedulesAtCall, jobId) = Val(previousPlan).plan
  /\ capacities # {}
  /\ Val(job).deadlineDate = <<2025, 6, 13>>

\* a row of the job exceeds the capacity of its stage and week
OverCapacity ==
  \E r \in JobSchedules(schedules, jobId), c \in capacities :
    /\ c.stageId = r.stageId
    /\ c.weekStart = r.weekStart
    /\ r.scheduledSamples > c.maxCapacity

\* a row of the job lies in a week that starts after the job's deadline
AfterDeadline ==
  \E r \in JobSchedules(schedules, jobId) :
    ParseDate(r.weekStart) > ParseDate(Val(job).deadlineDate)

(***************************************************************************)
(* C17  Capacity and deadline are ignored: a call of autoPlanJob on a      *)
(* store that differs from the store of an earlier, successful call only   *)
(* in table capacities and in the job's deadlineDate succeeds as well and  *)
(* leaves the same (stage, week, quantity) rows, also where a row exceeds  *)
(* the capacity of its stage and week or lies after the deadline.          *)
(***************************************************************************)
C17_CapacityAndDeadlineIgnored ==
  (Finished /\ OnlyCapacityAndDeadlineChanged) =>
     /\ result = "ok"
     /\ PlanOf(schedules, jobId) = Val(previousPlan).plan

\* the second plan exceeds a capacity and runs past the deadline
C17_Witness ==
  /\ Returned
  /\ OnlyCapacityAndDeadlineChanged
  /\ OverCapacity
  /\ AfterDeadline

\* every stage of the pipeline has processingTimeDays = 0
ZeroWait == \A k \in Positions : jobStagesData[k].processingTimeDays = 0

\* the week bucket of job.materialArrivesDate
ArrivalWeek == getWeekStart(ParseDate(Val(job).materialArrivesDate))

(***************************************************************************)
(* C18  Zero-wait collapse: if every stage of the pipeline has             *)
(* processingTimeDays = 0, then after autoPlanJob has returned every row   *)
(* of the job, of first-pass and of released quantities alike, is in the   *)
(* week of materialArrivesDate.                                            *)
(***************************************************************************)
C18_ZeroWaitCollapse ==
  (Returned /\ ZeroWait) =>
     /\ \A r \in JobSchedules(schedules, jobId) : r.weekStart = ArrivalWeek
     /\ \A n \in 1..Len(writes) : writes[n].weekStart = ArrivalWeek
     /\ JobSchedules(schedules, jobId) # {}

\* a returned zero-wait plan with two capped stages, both released, for an
\* arrival on a Thursday
C18_Witness ==
  /\ Returned /\ ZeroWait
  /\ Cardinality(Capped) = 2
  /\ Cardinality(Releases) >= 2
  /\ Val(job).materialArrivesDate = <<2025, 6, 12>>
  /\ ArrivalWeek = <<2025, 6, 9>>

\* five stages, Stage 2 capped at P1 and Stage 3 at P2, both releasing at
\* Stage 4, and Q > P1 > P2
MultiHold ==
  /\ Planned
  /\ Len(jobStagesData) = 5
  /\ Capped = {2, 3}
  /\ ReleaseAt(2) = 4 /\ ReleaseAt(3) = 4
  /\ HoldQtyAt(3) < HoldQtyAt(2) /\ HoldQtyAt(2) < TotalSamples

(***************************************************************************)
(* C19  Multi-hold scenario: nothing is released before the leading        *)
(* portion (P2) is scheduled into Stage 4; the two writes that follow it   *)
(* release the remainder Q - P1 into Stage 2 and the remainder P1 - P2     *)
(* into Stage 3, in the week of that Stage 4 row; autoPlanJob returns and  *)
(* the final stage then totals Q.                                          *)
(***************************************************************************)
C19_MultiHoldScenario ==
  MultiHold =>
    /\ \A n \in Releases : WritesInto(4) # {} /\ FirstWriteInto(4) < n
    /\ WritesInto(4) # {} =>
         LET t == FirstWriteInto(4)
         IN /\ writes[t].kind = "advance"
            /\ writes[t].quantity = HoldQtyAt(3)
            /\ Len(writes) >= t + 1 =>
                 /\ writes[t + 1].kind = "release"
                 /\ writes[t + 1].stageId = jobStagesData[2].stageId
                 /\ writes[t + 1].quantity = TotalSamples - HoldQtyAt(2)
                 /\ writes[t + 1].weekStart = writes[t].weekStart
            /\ Len(writes) >= t + 2 =>
                 /\ writes[t + 2].kind = "release"
                 /\ writes[t + 2].stageId = jobStagesData[3].stageId
                 /\ writes[t + 2].quantity = HoldQtyAt(2) - HoldQtyAt(3)
                 /\ writes[t + 2].weekStart = writes[t].weekStart
    /\ pc = "done" =>
         /\ result = "ok"
         /\ StageTotal(jobStagesData[5].stageId) = TotalSamples
         /\ \A b \in 1..Len(batches) : ~batches[b].held

\* the scenario of the test (Q = 20, P1 = 2, P2 = 1) has returned
C19_Witness ==
  /\ Returned /\ MultiHold
  /\ TotalSamples = 20 /\ HoldQtyAt(2) = 2 /\ HoldQtyAt(3) = 1
  /\ Cardinality(Releases) >= 2

\* the dates of the run so far and the day counts of the pipeline
DatesOfRun == { writes[n].date : n \in 1..Len(writes) }
DayCounts == { jobStagesData[k].processingTimeDays : k \in Positions }

(***************************************************************************)
(* C20  The two implementations are functionally identical: for the dates  *)
(* and day counts of every run getWeekStart and GetWeekStart agree and     *)
(* addBusinessDays and AddBusinessDays agree, and for every job and stage  *)
(* graph the C# AutoPlanJob ends as the TypeScript autoPlanJob did on the  *)
(* same store: both succeed or both fail, with the same (stage, week,      *)
(* quantity) rows.                                                         *)
(***************************************************************************)
C20_ImplementationsAgree ==
  /\ \A d \in DatesOfRun :
       /\ GetWeekStart(d) = getWeekStart(d)
       /\ \A n \in DayCounts : AddBusinessDays(d, n) = addBusinessDays(d, n)
  /\ (pc = "done" /\ implementation = "cs" /\ previousPlan # Null) =>
       /\ (result = "ok") <=> (Val(previousPlan).result = "ok")
       /\ PlanOf(schedules, jobId) = Val(previousPlan).plan

\* the rows of the planned job for a (stage, week) key
KeyRows(rows, stageId, week) ==
  { r \in JobSchedules(rows, jobId) : r.stageId = stageId /\ r.weekStart = week }

(***************************************************************************)
(* C21  Schedule writer merge: a call of scheduleQuantityForWeek(job,      *)
(* stage, week, delta) adds delta to the row of (job, stage, week) when    *)
(* there is one and inserts a row with quantity delta otherwise, and       *)
(* leaves the rows of every other key as they are; so at every point of a  *)
(* sequential autoPlanJob run after its delete there is at most one row    *)
(* per (job, stage, week), holding the sum of the deltas written for it.   *)
(***************************************************************************)
C21_WriterMerge ==
  [][/\ Len(writes') = Len(writes) + 1 =>
          LET w      == writes'[Len(writes')]
              before == KeyRows(schedules, w.stageId, w.weekStart)
              after  == KeyRows(schedules', w.stageId, w.weekStart)
          IN /\ schedules' \ after = schedules \ before
             /\ before # {} =>
                  after = { [r EXCEPT !.scheduledSamples = @ + w.quantity]
                            : r \in before }
             /\ before = {} =>
                  /\ Cardinality(after) = 1
                  /\ \A r \in after : r.scheduledSamples = w.quantity
             /\ Cardinality(after) = 1
     /\ batches' # <<>> => PlanOf(schedules', jobId') = PlanFrom(writes')
    ]_vars

\* a write was merged into the row of an earlier write of the run: the row
\* holds the sum of two deltas
C21_Witness ==
  /\ pc = "release"
  /\ \E n, m \in 1..Len(writes) :
       /\ n < m /\ m = Len(writes)
       /\ writes[n].stageId = writes[m].stageId
       /\ writes[n].weekStart = writes[m].weekStart
       /\ writes[n].quantity > 0 /\ writes[m].quantity > 0
       /\ \E r \in KeyRows(schedules, writes[m].stageId, writes[m].weekStart) :
            r.scheduledSamples >= writes[n].quantity + writes[m].quantity

(***************************************************************************)
(* C22  No negative quantities: for a job with totalSamples >= 1 and any   *)
(* stored stage graph (proceedWithTestQty unset or any integer), every     *)
(* quantity passed to scheduleQuantityForWeek is >= 0 and no row of the    *)
(* job has a negative scheduledSamples at any point of the run.            *)
(***************************************************************************)
C22_NoNegativeQuantities ==
  (Planned /\ TotalSamples >= 1) =>
     /\ \A n \in 1..Len(writes) : writes[n].quantity >= 0
     /\ \A r \in JobSchedules(schedules, jobId) : r.scheduledSamples >= 0

\* the weekdays (Monday to Friday) in the interval (from, to]
WeekdaysBetween(from, to) ==
  { x \in (from + 1)..to : getDay(x) # 0 /\ getDay(x) # 6 }

(***************************************************************************)
(* C23  addBusinessDays: addBusinessDays(d, 0) = d, also for a Saturday or *)
(* Sunday d; for n >= 1 the result is a weekday strictly after d with      *)
(* exactly n weekdays in (d, result]; and a chain of calls adding a, b, .. *)
(* business days gives the result of one call adding their sum.            *)
(***************************************************************************)
C23_AddBusinessDays ==
  helper # Null =>
    LET d == Val(helper).startDate
        n == Val(helper).businessDays
        r == Val(helper).result
    IN /\ r = addBusinessDays(d, n)
       /\ n = 0 => r = d
       /\ n >= 1 =>
            /\ getDay(r) \in 1..5
            /\ r > d
            /\ Cardinality(WeekdaysBetween(d, r)) = n

\* three calls from a Saturday have added eleven business days together
C23_Witness ==
  /\ helper # Null
  /\ getDay(Val(helper).startDate) = 6
  /\ Val(helper).calls = MaxHelperCalls
  /\ Val(helper).businessDays >= 11
  /\ Val(helper).result - Val(helper).startDate >= 16

\* date strings YYYY-MM-DD in their string order
DateStringLeq(a, b) ==
  \/ a[1] < b[1]
  \/ a[1] = b[1] /\ a[2] < b[2]
  \/ a[1] = b[1] /\ a[2] = b[2] /\ a[3] <= b[3]

(***************************************************************************)
(* C24  Week bucketing: getWeekStart(d) is a Monday, not after d and at    *)
(* most 6 days before d (a Sunday goes to the Monday 6 days earlier, a     *)
(* Monday to itself); getWeekStart is idempotent, and monotone: d1 <= d2   *)
(* implies getWeekStart(d1) <= getWeekStart(d2), also across month and     *)
(* year boundaries.                                                        *)
(***************************************************************************)
C24_WeekBucketing ==
  (helper # Null /\ Val(helper).weekStart # Null) =>
    LET d  == Val(helper).date
        w  == ParseDate(Val(Val(helper).weekStart))
        w2 == ParseDate(Val(Val(helper).laterWeekStart))
    IN /\ FormatDate(w) = Val(Val(helper).weekStart)
       /\ getDay(w) = 1
       /\ w <= d
       /\ d - w <= 6
       /\ getDay(d) = 0 => d - w = 6
       /\ getDay(d) = 1 => w = d
       /\ Val(helper).weekStartAgain = Val(helper).weekStart
       /\ d <= Val(helper).laterDate =>
            /\ w <= w2
            /\ DateStringLeq(Val(Val(helper).weekStart),
                             Val(Val(helper).laterWeekStart))

\* a Sunday at the end of December goes to a Monday of December, and a date
\* of the next January to the Monday of the week that begins in December
C24_Witness ==
  /\ helper # Null /\ Val(helper).weekStart # Null
  /\ getDay(Val(helper).date) = 0
  /\ FormatDate(Val(helper).date)[2] = 12
  /\ Val(helper).date - ParseDate(Val(Val(helper).weekStart)) = 6
  /\ FormatDate(Val(helper).laterDate)[1] = 2025
  /\ Val(Val(helper).laterWeekStart) = <<2024, 12, 30>>

\* pipeline position (1-based) of a stage id, 0 when it is not in the pipeline
PositionOf(stageId) == findIndex(jobStagesData, Some(stageId)) + 1

(***************************************************************************)
(* C25  Target date rule: the main step schedules the first stage of the   *)
(* pipeline on materialArrivesDate itself, and an active batch that was    *)
(* scheduled into stage k on date D is scheduled into stage k+1 on         *)
(* addBusinessDays(D, processingTimeDays of stage k), the stage being      *)
(* left; the row goes to the week of that date.  A call made after the     *)
(* processing time of the final stage was changed leaves the same rows.    *)
(***************************************************************************)
C25_TargetDateRule ==
  [][/\ (pc = "write" /\ Len(writes') = Len(writes) + 1) =>
          LET batch == batches[i + 1]
              w     == writes'[Len(writes')]
              p     == PositionOf(w.stageId)
          IN /\ w.weekStart = getWeekStart(w.date)
             /\ batch.lastScheduledStage = Null =>
                  /\ p = 1
                  /\ w.date = ParseDate(Val(job).materialArrivesDate)
             /\ batch.lastScheduledStage # Null =>
                  /\ p = PositionOf(Val(batch.lastScheduledStage)) + 1
                  /\ p > 1
                  /\ \E m \in 1..Len(writes) :
                       /\ writes[m].stageId = Val(batch.lastScheduledStage)
                       /\ writes[m].date = Val(batch.lastScheduledDate)
                  /\ w.date = addBusinessDays(Val(batch.lastScheduledDate),
                                jobStagesData[p - 1].processingTimeDays)
     /\ (pc' = "done" /\ previousPlan' # Null) =>
          /\ result' = Val(previousPlan').result
          /\ PlanOf(schedules', jobId') = Val(previousPlan').plan
    ]_vars

\* the second call, made with another processing time of the final stage, has
\* returned; a released batch went on to a later stage after a wait
C25_Witness ==
  /\ Returned
  /\ previousPlan # Null
  /\ Len(jobStagesData) >= 3
  /\ \E n, m \in 1..Len(writes) :
       /\ n < m
       /\ writes[n].kind = "release"
       /\ writes[m].kind = "advance"
       /\ PositionOf(writes[m].stageId) = PositionOf(writes[n].stageId) + 1
       /\ writes[m].date > writes[n].date

\* the index of the latest write of the main step: the trigger of the releases
\* that follow it
LastAdvance ==
  CHOOSE m \in 1..Len(writes) :
    /\ writes[m].kind = "advance"
    /\ \A n \in (m + 1)..Len(writes) : writes[n].kind = "release"

HeldBatches(bs) == SelectSeq(bs, LAMBDA b : b.held)

\* a sequence without its k-th element
Without(s, k) == SubSeq(s, 1, k - 1) \o SubSeq(s, k + 1, Len(s))

(***************************************************************************)
(* C27  Held batches make no progress on their own: the main step never    *)
(* schedules a held batch, and every step leaves the held batches as they  *)
(* are, field by field (a split may add one), except the release step,     *)
(* which takes one batch out of Held: one that waits on the stage the      *)
(* active batch of the main step was just scheduled into.                  *)
(***************************************************************************)
C27_HeldBatchesWait ==
  [][LET H  == HeldBatches(batches)
         Hn == HeldBatches(batches')
     IN /\ pc = "write" => ~batches[i + 1].held
        /\ IF pc = "release" /\ pc' = "releaseWrite"
             THEN \E k \in 1..Len(H) :
                    /\ Hn = Without(H, k)
                    /\ ~batches[i + 1].held
                    /\ H[k].releaseQtyHeldAtStage = batches[i + 1].lastScheduledStage
                    /\ writes[LastAdvance].stageId = Val(H[k].releaseQtyHeldAtStage)
             ELSE /\ Len(Hn) >= Len(H)
                  /\ SubSeq(Hn, 1, Len(H)) = H
                  /\ Len(Hn) > Len(H) => (pc = "write" /\ Len(Hn) = Len(H) + 1)
    ]_vars

\* a batch is still held in the third pass of the loop, while an active batch
\* is being scheduled
C27_Witness ==
  /\ pc = "write"
  /\ iterations >= 3
  /\ Len(HeldBatches(batches)) >= 1
  /\ \A k \in 1..Len(batches) : batches[k].held => batches[k].lastScheduledDate = Null

\* the held batch at 0-based index k waits on the stage with this id
WaitsOn(bs, k, stageId) ==
  bs[k + 1].held /\ bs[k + 1].releaseQtyHeldAtStage = Some(stageId)

\* the stage of the latest main-step write: the stage just scheduled
TriggerStage == writes[LastAdvance].stageId

(***************************************************************************)
(* C28  Release trigger scope: the release scan that follows a main-step   *)
(* write into stage T releases exactly the held batches waiting on T, a    *)
(* held batch created by that very step included (the remainder of a       *)
(* capped stage releasing at itself is written at once, in the same week); *)
(* a write made by a release into another stage X releases no batch        *)
(* waiting on X.                                                           *)
(***************************************************************************)
C28_ReleaseTriggerScope ==
  [][pc = "release" =>
       /\ \A k \in 0..(Len(batches) - 1) :
            \* a batch leaves Held only when it waits on T
            /\ (batches[k + 1].held /\ ~batches'[k + 1].held) =>
                 WaitsOn(batches, k, TriggerStage)
            \* and a batch waiting on another stage stays held, also when the
            \* latest release write went into that stage
            /\ (batches[k + 1].held /\ ~WaitsOn(batches, k, TriggerStage)) =>
                 batches'[k + 1] = batches[k + 1]
       /\ pc' = "releaseWrite" =>
            /\ WaitsOn(batches, j', TriggerStage)
            /\ Val(weekStart') = writes[LastAdvance].weekStart
       \* the scan ends when no batch waiting on T is left, so no batch is
       \* left waiting on the stage it was split at
       /\ pc' = "batch" =>
            \A k \in 0..(Len(batches) - 1) :
               /\ ~WaitsOn(batches, k, TriggerStage)
               /\ ~WaitsOn(batches, k,
                     jobStagesData[ReleaseToStageIndex(batches[k + 1],
                                                       batches[i + 1]) + 1].stageId)
    ]_vars

\* the release scan has ended; its latest release wrote into a stage X other
\* than the stage just scheduled, and a batch waiting on X is still held
C28_Witness ==
  /\ pc = "batch"
  /\ Len(writes) > 0
  /\ writes[Len(writes)].kind = "release"
  /\ writes[Len(writes)].stageId # TriggerStage
  /\ \E k \in 0..(Len(batches) - 1) : WaitsOn(batches, k, writes[Len(writes)].stageId)

RECURSIVE SumQty(_)
\* the sum of the quantities of a list of batches
SumQty(bs) == IF bs = <<>> THEN 0 ELSE Head(bs).qty + SumQty(Tail(bs))

(***************************************************************************)
(* C29  Split rule and conservation of batch quantities: an active batch   *)
(* of quantity q entering a stage with proceedWithTestQty = P goes on with *)
(* min(P, q), and a held child of quantity q - P is created if and only if *)
(* q > P; entering a stage without proceedWithTestQty the batch keeps q    *)
(* and no child is created.  At every point of the run the quantities of   *)
(* all batches add up to the job's totalSamples.                           *)
(***************************************************************************)
C29_SplitRule ==
  [][/\ (pc = "write" /\ pc' = "release") =>
          LET batch == batches[i + 1]
              q     == batch.qty
              P     == Val(NextStage(batch)).stage.proceedWithTestQty
              w     == writes'[Len(writes')]
              split == Len(batches') = Len(batches) + 1
          IN /\ w.stageId = Val(NextStage(batch)).stageId
             /\ w.quantity = batches'[i + 1].qty
             /\ split \/ Len(batches') = Len(batches)
             /\ P = Null => (batches'[i + 1].qty = q /\ ~split)
             /\ P # Null =>
                  /\ batches'[i + 1].qty = Min(Val(P), q)
                  /\ split <=> q > Val(P)
                  /\ split =>
                       /\ batches'[Len(batches')].held
                       /\ batches'[Len(batches')].qty = Max(q - Val(P), 0)
                       /\ batches'[Len(batches')].qty = q - Val(P)
     /\ batches' # <<>> => SumQty(batches') = Val(job').totalSamples
    ]_vars

\* a batch smaller than the proceedWithTestQty of a capped stage has entered
\* it whole, after an earlier split
C29_Witness ==
  /\ pc = "release"
  /\ Len(batches) >= 2
  /\ writes[Len(writes)].kind = "advance"
  /\ PositionOf(writes[Len(writes)].stageId) \in Capped
  /\ writes[Len(writes)].quantity < HoldQtyAt(PositionOf(writes[Len(writes)].stageId))

\* how often a batch record occurs in a batch list
Occurrences(bs, b) == Cardinality({ k \in 1..Len(bs) : bs[k] = b })

\* two batch lists hold the same batches, in any order
SameBatches(bs, cs) ==
  /\ Len(bs) = Len(cs)
  /\ \A k \in 1..Len(bs) : Occurrences(bs, bs[k]) = Occurrences(cs, bs[k])

\* pipeline position of the last stage a batch was scheduled into (0: none)
LastPosition(b) ==
  IF b.lastScheduledStage = Null THEN 0 ELSE PositionOf(Val(b.lastScheduledStage))

(***************************************************************************)
(* C30  Batch state machine: batches are only added to the list (the sort  *)
(* reorders it); a batch that is not held never becomes held, so a batch   *)
(* is Held only from its creation by a split until its release; no batch   *)
(* is Held and Completed; a batch is Completed exactly when its last       *)
(* scheduled stage is the last pipeline stage, and is not changed          *)
(* afterwards; every scheduling of a batch moves it to the next pipeline   *)
(* position, one at a time, and each write goes to that stage.             *)
(***************************************************************************)
C30_BatchStateMachine ==
  [][/\ Len(batches') >= Len(batches)
     /\ pc = "loop" => SameBatches(batches, batches')
     /\ pc # "loop" =>
          \A k \in 1..Len(batches) :
            LET b == batches[k]
                c == batches'[k]
            IN /\ ~b.held => ~c.held
               /\ b.schedulingCompleted => c = b
               /\ LastPosition(c) \in { LastPosition(b), LastPosition(b) + 1 }
               /\ LastPosition(c) = LastPosition(b) + 1 =>
                    \/ pc = "write" /\ k = i + 1 /\ ~b.held
                         /\ writes'[Len(writes')].stageId = Val(c.lastScheduledStage)
                    \/ pc = "release" /\ k = j' + 1 /\ b.held
               /\ (c # b /\ LastPosition(c) = LastPosition(b)) =>
                    pc = "releaseWrite" /\ k = j + 1
     /\ pc = "releaseWrite" =>
          writes'[Len(writes')].stageId = Val(batches[j + 1].lastScheduledStage)
     /\ Len(batches') > Len(batches) =>
          /\ Len(batches') = Len(batches) + 1
          /\ pc \in {"clear", "write"}
          /\ pc = "write" =>
               /\ batches'[Len(batches')].held
               /\ LastPosition(batches'[Len(batches')]) = LastPosition(batches'[i + 1]) - 1
     /\ \A k \in 1..Len(batches') :
          /\ ~(batches'[k].held /\ batches'[k].schedulingCompleted)
          /\ batches'[k].schedulingCompleted <=>
               LastPosition(batches'[k]) = Len(jobStagesData')
    ]_vars

\* the run has returned with at least three batches, all completed; two of
\* them were held and released, on different dates
C30_Witness ==
  /\ Returned
  /\ Len(batches) >= 3
  /\ AllCompleted
  /\ Cardinality(Releases) >= 2
  /\ \E n, m \in Releases : n < m /\ writes[n].date < writes[m].date

RECURSIVE SumOfRows(_)
SumOfRows(rows) ==
  IF rows = {} THEN 0
  ELSE LET r == CHOOSE x \in rows : TRUE
       IN r[3] + SumOfRows(rows \ {r})

StageTotalsOf(rows) ==
  [k \in Positions |-> SumOfRows({ r \in rows : r[1] = jobStagesData[k].stageId })]

PlannedWeeks == { r.weekStart : r \in JobSchedules(schedules, jobId) }

\* total of the planned job's rows of the stage at position k in the weeks up
\* to and including w
CumulativeInto(k, w) ==
  SumSamples({ r \in JobSchedules(schedules, jobId) :
                 /\ r.stageId = jobStagesData[k].stageId
                 /\ DateStringLeq(r.weekStart, w) })

StageIndexes == 0..(Len(jobStagesData) - 1)

(***************************************************************************)
(* C33  No out-of-range stage access: in storage.ts autoPlanJob, whenever  *)
(* an active batch is processed its nextStageIndex is an index of the      *)
(* pipeline, whenever a held batch is released its releaseToStageIndex is  *)
(* one, and no run ends in a TypeError, for every stage graph with         *)
(* distinct stages, a one-stage pipeline and a capped first stage included.*)
(***************************************************************************)
C33_StageIndexInRange ==
  /\ (/\ pc = "batch"
      /\ i < Len(batches)
      /\ ~(batches[i + 1].held \/ batches[i + 1].schedulingCompleted))
       => NextStageIndex(batches[i + 1]) \in StageIndexes
  /\ pc = "release"
       => \A k \in NextReleased :
            ReleaseToStageIndex(batches[k + 1], batches[i + 1]) \in StageIndexes
  /\ result # "TypeError"

\* on a one-stage pipeline whose only stage is capped, the held remainder is
\* about to be released: it was held before the first stage, and the release
\* goes to index 0, the last index of the pipeline
C33_Witness ==
  /\ pc = "release"
  /\ Len(jobStagesData) = 1
  /\ \E k \in NextReleased :
       /\ batches[k + 1].lastScheduledStage = Null
       /\ ReleaseToStageIndex(batches[k + 1], batches[i + 1]) = 0

\* the last call was a moveSchedule, and it returned / it threw
Moved == edit # Null /\ Val(edit).op = "moveSchedule" /\ result = "ok"
MoveFailed == edit # Null /\ Val(edit).op = "moveSchedule" /\ result # "ok"

\* total of the job's rows of a stage in a table, over all weeks
StageTotalIn(rows, stageId) ==
  SumSamples({ r \in JobSchedules(rows, jobId) : r.stageId = stageId })

(***************************************************************************)
(* C34  moveSchedule conserves quantity: after a successful moveSchedule   *)
(* of 1 <= quantity <= the source row's quantity, the total of the stage   *)
(* over all weeks is what it was before the call, also when fromWeek       *)
(* equals toWeek.                                                          *)
(***************************************************************************)
C34_MoveConservesQuantity ==
  Moved => StageTotalIn(schedules, Val(edit).stageId)
             = StageTotalIn(schedulesAtCall, Val(edit).stageId)

(***************************************************************************)
(* C35  moveSchedule leaves the store unchanged on failure: when           *)
(* moveSchedule throws (source row missing, quantity greater than the      *)
(* source row's quantity, validation of the destination failed), every     *)
(* schedule row of the job has the quantity it had before the call.        *)
(***************************************************************************)
C35_FailedMoveLeavesRows ==
  MoveFailed => JobSchedules(schedules, jobId) = JobSchedules(schedulesAtCall, jobId)

(***************************************************************************)
(* C36  Sequential-stage rule under manual edits: starting from an empty   *)
(* schedule, after any sequence of updateSchedule, moveSchedule and        *)
(* deleteSchedule calls, for every pair of consecutive applicable stages   *)
(* the total of the later stage over all weeks does not exceed the total   *)
(* of the earlier stage.                                                   *)
(***************************************************************************)
C36_SequentialRuleKept ==
  \A k \in 1..(MaxEditStages - 1) :
    StageTotalIn(schedules, StageId(k + 1)) <= StageTotalIn(schedules, StageId(k))

\* the message of the error the call ended with
ThrownMessage ==
  ErrorMessage(result, jobId, IF job # Null THEN Val(job).activityType ELSE "")

(***************************************************************************)
(* C37  Error message for a missing activity type: autoPlanJob on a job    *)
(* whose activityType X names no activity type rejects with a message      *)
(* that contains "Activity type X not found", the name without quotation   *)
(* marks, and on an activity type X without stages with one that contains  *)
(* "No stages found for activity type X".                                  *)
(***************************************************************************)
C37_ErrorMessages ==
  /\ (pc = "done" /\ NoSuchActivityType)
       => Includes(ThrownMessage,
                   Spaced(<<"Activity", "type", Val(job).activityType, "not", "found">>))
  /\ (pc = "done" /\ NoLinkedStages)
       => Includes(ThrownMessage,
                   Spaced(<<"No", "stages", "found", "for", "activity", "type",
                            Val(job).activityType>>))

====
